---- MODULE Spec2Model ----
(***************************************************************************)
(* The resilient request layer of secret-ai-sdk: the exception classes of  *)
(* secret_ai_ex.py, the classifier, backoff schedule and retry decorator   *)
(* of _retry.py, and the generate/chat methods of _enhanced_client.py.     *)
(*                                                                         *)
(* Text is a sequence of one-character strings, so that str(), lower()     *)
(* and the substring test of the classifier are computed, not assumed.     *)
(* Durations are whole ticks.                                              *)
(***************************************************************************)
EXTENDS Integers, Sequences, FiniteSets, TLC

VARIABLES
    calls,      \* per running call of a wrapped function: the wrapper's locals and position
    script,     \* outcomes the wrapped operation (or the transport under it) has produced so far, by invocation index
    error,      \* classifier run: the exception handed to is_retryable_error
    verdict,    \* classifier run: <<>>, or <<b>> once it has returned b
    env,        \* os.environ: variable name -> text
    client,     \* outcome of constructing the client: Returned(self) or Raised(exception)
    args,       \* run of a function on its own: the arguments it is called with
    results,    \* run of a function on its own: what it has returned or raised so far
    wire,       \* what has reached the underlying ollama or LCD client, in order
    cancelled   \* whether the caller has asked for the running call to be cancelled

vars == <<calls, script, error, verdict, env, client, args, results, wire, cancelled>>

---------------------------------------------------------------------------
(* Text *)

UpperCase == <<"A","B","C","D","E","F","G","H","I","J","K","L","M","N","O","P","Q","R","S","T","U","V","W","X","Y","Z">>
LowerCase == <<"a","b","c","d","e","f","g","h","i","j","k","l","m","n","o","p","q","r","s","t","u","v","w","x","y","z">>

\* str.lower() on one character (ASCII letters; every other character is kept)
lower_char(ch) ==
    IF \E i \in 1..Len(UpperCase) : UpperCase[i] = ch
    THEN LowerCase[CHOOSE i \in 1..Len(UpperCase) : UpperCase[i] = ch]
    ELSE ch

\* str.lower()
lower(s) == [i \in 1..Len(s) |-> lower_char(s[i])]

\* Python's `k in s` on strings: k occurs in s as a contiguous run
str_in(k, s) == \E i \in 0..(Len(s) - Len(k)) : SubSeq(s, i + 1, i + Len(k)) = k

Digits == <<"0","1","2","3","4","5","6","7","8","9">>

\* str(n) of an integer, as the f-string of SecretAIRetryExhaustedError formats it
RECURSIVE nat_str(_)
nat_str(n) == IF n < 10 THEN <<Digits[n + 1]>> ELSE nat_str(n \div 10) \o <<Digits[(n % 10) + 1]>>

int_str(n) == IF n < 0 THEN <<"-">> \o nat_str(0 - n) ELSE nat_str(n)

---------------------------------------------------------------------------
(* Exceptions: secret_ai_ex.py.  An exception is a record: its class, the  *)
(* argument its base constructor received (what str() shows), and the      *)
(* fields its own constructor sets.                                        *)

None == [cls |-> "NoneType"]

\* class -> direct base class
Bases ==
    [ SecretAIError                   |-> "Exception",
      SecretAINotImplementedError     |-> "SecretAIError",
      SecretAIInvalidInputError       |-> "SecretAIError",
      SecretAIAPIKeyMissingError      |-> "SecretAIError",
      SecretAISecretValueMissingError |-> "SecretAIError",
      SecretAINetworkError            |-> "SecretAIError",
      SecretAITimeoutError            |-> "SecretAINetworkError",
      SecretAIRetryExhaustedError     |-> "SecretAINetworkError",
      SecretAIResponseError           |-> "SecretAIError",
      SecretAIConnectionError         |-> "SecretAINetworkError",
      ValueError                      |-> "Exception",
      KeyError                        |-> "Exception",
      TypeError                       |-> "Exception",
      ArithmeticError                 |-> "Exception",
      OverflowError                   |-> "ArithmeticError",
      OSError                         |-> "Exception",
      ConnectionError                 |-> "OSError",
      TimeoutException                |-> "Exception",   \* httpx.TimeoutException
      ConnectError                    |-> "Exception",   \* httpx.ConnectError
      CancelledError                  |-> "BaseException",   \* asyncio.CancelledError
      Exception                       |-> "BaseException" ]

RECURSIVE Mro(_)
Mro(cls) == IF cls \in DOMAIN Bases THEN {cls} \cup Mro(Bases[cls]) ELSE {cls}

\* isinstance(e, types) for a tuple (here: set) of class names
isinstance(e, types) == Mro(e.cls) \cap types # {}

SecretAIError(msg) ==
    [cls |-> "SecretAIError",
     arg |-> <<"S","e","c","r","e","t"," ","A","I"," ","S","D","K"," ","E","r","r","o","r",":"," ">> \o msg]

SecretAINotImplementedError ==
    [SecretAIError(<<"N","o","t"," ","i","m","p","l","e","m","e","n","t","e","d">>)
        EXCEPT !.cls = "SecretAINotImplementedError"]

SecretAIInvalidInputError(msg) ==
    [SecretAIError(IF msg = <<>>      \* `msg or ...`: None and '' are both falsy
                   THEN <<"I","n","v","a","l","i","d"," ","v","a","l","u","e">>
                   ELSE msg)
        EXCEPT !.cls = "SecretAIInvalidInputError"]

SecretAIAPIKeyMissingError ==
    [SecretAIError(<<"M","i","s","s","i","n","g"," ","A","P","I"," ","K","e","y","."," ","E","n","v","i","r","o","n","m","e","n","t"," ","v","a","r","i","a","b","l","e"," ","S","E","C","R","E","T","_","A","I","_","A","P","I","_","K","E","Y"," ","m","u","s","t"," ","b","e"," ","s","e","t">>)
        EXCEPT !.cls = "SecretAIAPIKeyMissingError"]

SecretAISecretValueMissingError(var) ==
    [SecretAIError(<<"M","i","s","s","i","n","g"," ","e","n","v","i","r","o","n","m","e","n","t"," ","v","a","r","i","a","b","l","e"," ">>
                   \o var \o <<" ","m","u","s","t"," ","b","e"," ","s","e","t">>)
        EXCEPT !.cls = "SecretAISecretValueMissingError"]

SecretAINetworkError(msg, original_error) ==
    [cls |-> "SecretAINetworkError",
     arg |-> SecretAIError(<<"N","e","t","w","o","r","k"," ","e","r","r","o","r",":"," ">> \o msg).arg,
     original_error |-> original_error]

\* timeout is the text Python prints for the float
SecretAITimeoutError(timeout, operation) ==
    [cls |-> "SecretAITimeoutError",
     arg |-> SecretAINetworkError(operation \o <<" ","t","i","m","e","d"," ","o","u","t"," ","a","f","t","e","r"," ">>
                                  \o timeout \o <<" ","s","e","c","o","n","d","s">>, None).arg,
     original_error |-> None,
     timeout |-> timeout]

\* SecretAIRetryExhaustedError that does not keep last_error
SecretAIRetryExhaustedError_drops_last_error(attempts, last_error) ==
    [cls |-> "SecretAIRetryExhaustedError",
     arg |-> SecretAINetworkError(<<"A","l","l"," ">> \o int_str(attempts)
                                  \o <<" ","r","e","t","r","y"," ","a","t","t","e","m","p","t","s"," ","f","a","i","l","e","d">>,
                                  None).arg,
     original_error |-> None,
     attempts |-> attempts]

SecretAIRetryExhaustedError(attempts, last_error) ==
    [cls |-> "SecretAIRetryExhaustedError",
     arg |-> SecretAINetworkError(<<"A","l","l"," ">> \o int_str(attempts)
                                  \o <<" ","r","e","t","r","y"," ","a","t","t","e","m","p","t","s"," ","f","a","i","l","e","d">>,
                                  last_error).arg,
     original_error |-> last_error,
     attempts |-> attempts]

SecretAIResponseError(msg, response_data) ==
    [cls |-> "SecretAIResponseError",
     arg |-> SecretAIError(<<"I","n","v","a","l","i","d"," ","r","e","s","p","o","n","s","e",":"," ">> \o msg).arg,
     response_data |-> response_data]

SecretAIConnectionError(host, original_error) ==
    [cls |-> "SecretAIConnectionError",
     arg |-> SecretAINetworkError(<<"F","a","i","l","e","d"," ","t","o"," ","c","o","n","n","e","c","t"," ","t","o"," ">> \o host,
                                  original_error).arg,
     original_error |-> original_error,
     host |-> host]

\* a built-in exception raised with one text argument: Exception(msg), ValueError(msg), KeyError(msg)
BuiltinError(cls, msg) == [cls |-> cls, arg |-> msg]

\* str(error): the argument, except that KeyError shows the repr of its key
str(e) == IF e.cls = "KeyError" THEN <<"'">> \o e.arg \o <<"'">> ELSE e.arg

---------------------------------------------------------------------------
(* _retry.py: the backoff schedule and the classifier *)

\* The delays and the multiplier are floats holding whole numbers of ticks;
\* the attempt index is an int.  A float above MaxFloat is held as MaxFloat.
MaxFloat == 30000

\* sys.float_info.max_exp: a float power of 2 ** FLOAT_MAX_EXP or more is out of range
FLOAT_MAX_EXP == 1024

\* floor(log2(b)) for b >= 1
RECURSIVE ilog2(_)
ilog2(b) == IF b <= 1 THEN 0 ELSE 1 + ilog2(b \div 2)

\* b ** n of a float b >= 0 and an int n >= 0, when in range
RECURSIVE pow(_, _)
pow(b, n) ==
    IF n <= 0 THEN 1
    ELSE LET half == pow(b, n \div 2)
             square == IF half * half > MaxFloat THEN MaxFloat ELSE half * half
             p == IF n % 2 = 0 THEN square ELSE b * square
         IN  IF p > MaxFloat THEN MaxFloat ELSE p

\* whether b ** n is out of the float range (b ** n >= 2 ** FLOAT_MAX_EXP):
\* decided from 2 ** ilog2(b) <= b < 2 ** (ilog2(b) + 1)
pow_out_of_range(b, n) ==
    CASE b <= 1 -> FALSE
      [] b > 1 /\ n * ilog2(b) >= FLOAT_MAX_EXP -> TRUE
      [] b > 1 /\ n * (ilog2(b) + 1) < FLOAT_MAX_EXP -> FALSE
      [] b > 1 /\ b = pow(2, ilog2(b)) /\ n * ilog2(b) < FLOAT_MAX_EXP -> FALSE

min(a, b) == IF a <= b THEN a ELSE b

\* [kind |-> "return", value |-> the delay], or the OverflowError of `**`
calculate_delay(attempt, initial_delay, multiplier, max_delay) ==
    IF pow_out_of_range(multiplier, attempt)
    THEN [kind |-> "raise",
          exc |-> BuiltinError("OverflowError", <<"(","3","4",","," ","'","N","u","m","e","r","i","c","a","l"," ","r","e","s","u","l","t"," ","o","u","t"," ","o","f"," ","r","a","n","g","e","'",")">>)]
    ELSE LET delay == initial_delay * pow(multiplier, attempt)
         IN  [kind |-> "return", value |-> min(delay, max_delay)]

retryable_keywords ==
    << <<"t","i","m","e","o","u","t">>,
       <<"t","i","m","e","d"," ","o","u","t">>,
       <<"c","o","n","n","e","c","t","i","o","n">>,
       <<"n","e","t","w","o","r","k">>,
       <<"t","e","m","p","o","r","a","r","i","l","y"," ","u","n","a","v","a","i","l","a","b","l","e">>,
       <<"s","e","r","v","i","c","e"," ","u","n","a","v","a","i","l","a","b","l","e">>,
       <<"5","0","2">>,
       <<"5","0","3">>,
       <<"5","0","4">>,
       <<"g","a","t","e","w","a","y"," ","t","i","m","e","o","u","t">> >>

\* is_retryable_error with the keyword test ahead of the SecretAIResponseError test
is_retryable_error_keywords_first(e) ==
    LET error_msg == lower(str(e))
    IN  IF \E i \in 1..Len(retryable_keywords) : str_in(retryable_keywords[i], error_msg) THEN TRUE
        ELSE IF isinstance(e, {"SecretAIResponseError"}) THEN FALSE
        ELSE isinstance(e, {"SecretAINetworkError", "SecretAITimeoutError", "SecretAIConnectionError"})

\* is_retryable_error without .lower() on the message
is_retryable_error_case_sensitive(e) ==
    IF isinstance(e, {"SecretAIResponseError"}) THEN FALSE
    ELSE IF isinstance(e, {"SecretAINetworkError", "SecretAITimeoutError", "SecretAIConnectionError"}) THEN TRUE
    ELSE LET error_msg == str(e)
         IN  \E i \in 1..Len(retryable_keywords) : str_in(retryable_keywords[i], error_msg)

is_retryable_error(e) ==
    IF isinstance(e, {"SecretAIResponseError"}) THEN FALSE
    ELSE IF isinstance(e, {"SecretAINetworkError", "SecretAITimeoutError", "SecretAIConnectionError"}) THEN TRUE
    ELSE LET error_msg == lower(str(e))
         IN  \E i \in 1..Len(retryable_keywords) : str_in(retryable_keywords[i], error_msg)

---------------------------------------------------------------------------
(* _retry.py: retry_with_backoff.  A call of a wrapped function is a       *)
(* record of the decorator's closure values (max_retries, initial_delay,   *)
(* backoff_multiplier, max_delay, retryable_exceptions), the wrapper's     *)
(* locals (attempt, last_error), its position pc, and what it has done so  *)
(* far: the outcomes of its invocations of func, the sleeps it performed   *)
(* and its result.                                                         *)
(*   func: the function the decorator wraps                                *)
(*   pc: "idle"  the wrapper has not been called                           *)
(*       "func"  inside func(...)                              *)
(*       "sleep" inside time.sleep(delay) / await asyncio.sleep(delay)     *)
(*       "returned", "raised"  the wrapper has finished                    *)

Returned(v) == [kind |-> "return", value |-> v]
Raised(e) == [kind |-> "raise", exc |-> e]
Pending == [kind |-> "pending"]

\* retryable_exceptions: not passed (None), or a tuple of exception types
NoFilter == [given |-> FALSE, types |-> {}]
Filter(types) == [given |-> TRUE, types |-> types]
\* truth value of `retryable_exceptions` in `if retryable_exceptions:`
truthy(f) == f.given /\ f.types # {}

NewCall(wrapper, func, max_retries, initial_delay, backoff_multiplier, max_delay, retryable_exceptions) ==
    [wrapper |-> wrapper,
     func |-> func,
     max_retries |-> max_retries,
     initial_delay |-> initial_delay,
     backoff_multiplier |-> backoff_multiplier,
     max_delay |-> max_delay,
     retryable_exceptions |-> retryable_exceptions,
     pc |-> "idle",
     attempt |-> 0,
     last_error |-> None,
     outcomes |-> <<>>,
     sleeps |-> <<>>,
     result |-> Pending]

\* the wrapper ends by raising e
wrapper_raise(st, e) == [st EXCEPT !.pc = "raised", !.result = Raised(e)]

\* `for attempt in range(max_retries + 1)` reaching index i: the body runs
\* func, or the range is over and the statement after the loop raises
sync_wrapper_for(st, i) ==
    IF i < st.max_retries + 1
    THEN [st EXCEPT !.attempt = i, !.pc = "func"]
    ELSE wrapper_raise(st, SecretAIRetryExhaustedError(st.max_retries + 1, st.last_error))

\* sync_wrapper_except with the last-attempt test off by one (attempt >= max_retries - 1)
sync_wrapper_except_early_exhaust(st, e) ==
    LET st1 == [st EXCEPT !.last_error = e, !.outcomes = Append(@, Raised(e))]
    IN  IF st1.attempt >= st1.max_retries - 1
        THEN wrapper_raise(st1, SecretAIRetryExhaustedError(st1.max_retries + 1, st1.last_error))
        ELSE IF truthy(st1.retryable_exceptions) /\ ~isinstance(e, st1.retryable_exceptions.types)
        THEN wrapper_raise(st1, e)
        ELSE IF ~truthy(st1.retryable_exceptions) /\ ~is_retryable_error(e)
        THEN wrapper_raise(st1, e)
        ELSE LET delay == calculate_delay(st1.attempt, st1.initial_delay, st1.backoff_multiplier, st1.max_delay)
             IN  IF delay.kind = "raise"
                 THEN wrapper_raise(st1, delay.exc)
                 ELSE [st1 EXCEPT !.pc = "sleep", !.sleeps = Append(@, delay.value)]

\* `except Exception as e:` of sync_wrapper, up to the sleep or the raise
sync_wrapper_except(st, e) ==
    LET st1 == [st EXCEPT !.last_error = e, !.outcomes = Append(@, Raised(e))]
    IN  IF st1.attempt >= st1.max_retries
        THEN wrapper_raise(st1, SecretAIRetryExhaustedError(st1.max_retries + 1, st1.last_error))
        ELSE IF truthy(st1.retryable_exceptions) /\ ~isinstance(e, st1.retryable_exceptions.types)
        THEN wrapper_raise(st1, e)
        ELSE IF ~truthy(st1.retryable_exceptions) /\ ~is_retryable_error(e)
        THEN wrapper_raise(st1, e)
        ELSE LET delay == calculate_delay(st1.attempt, st1.initial_delay, st1.backoff_multiplier, st1.max_delay)
             IN  IF delay.kind = "raise"
                 THEN wrapper_raise(st1, delay.exc)
                 ELSE [st1 EXCEPT !.pc = "sleep", !.sleeps = Append(@, delay.value)]

\* sync_wrapper_return with the `return` lost: the value is kept but the loop goes on
sync_wrapper_return_continue(st, v) ==
    [st EXCEPT !.pc = "sleep", !.result = Returned(v), !.outcomes = Append(@, Returned(v))]

\* `return func(...)` of sync_wrapper when func returns v
sync_wrapper_return(st, v) ==
    [st EXCEPT !.pc = "returned", !.result = Returned(v), !.outcomes = Append(@, Returned(v))]

\* async_wrapper_for looping over range(max_retries)
async_wrapper_for_short(st, i) ==
    IF i < st.max_retries
    THEN [st EXCEPT !.attempt = i, !.pc = "func"]
    ELSE wrapper_raise(st, SecretAIRetryExhaustedError(st.max_retries + 1, st.last_error))

async_wrapper_for(st, i) ==
    IF i < st.max_retries + 1
    THEN [st EXCEPT !.attempt = i, !.pc = "func"]
    ELSE wrapper_raise(st, SecretAIRetryExhaustedError(st.max_retries + 1, st.last_error))

\* async_wrapper_except without the classifier test: every error is retried
async_wrapper_except_retry_all(st, e) ==
    LET st1 == [st EXCEPT !.last_error = e, !.outcomes = Append(@, Raised(e))]
    IN  IF st1.attempt >= st1.max_retries
        THEN wrapper_raise(st1, SecretAIRetryExhaustedError(st1.max_retries + 1, st1.last_error))
        ELSE IF truthy(st1.retryable_exceptions) /\ ~isinstance(e, st1.retryable_exceptions.types)
        THEN wrapper_raise(st1, e)
        ELSE LET delay == calculate_delay(st1.attempt, st1.initial_delay, st1.backoff_multiplier, st1.max_delay)
             IN  IF delay.kind = "raise"
                 THEN wrapper_raise(st1, delay.exc)
                 ELSE [st1 EXCEPT !.pc = "sleep", !.sleeps = Append(@, delay.value)]

\* `except Exception as e:` of async_wrapper, up to the sleep or the raise
async_wrapper_except(st, e) ==
    LET st1 == [st EXCEPT !.last_error = e, !.outcomes = Append(@, Raised(e))]
    IN  IF st1.attempt >= st1.max_retries
        THEN wrapper_raise(st1, SecretAIRetryExhaustedError(st1.max_retries + 1, st1.last_error))
        ELSE IF truthy(st1.retryable_exceptions) /\ ~isinstance(e, st1.retryable_exceptions.types)
        THEN wrapper_raise(st1, e)
        ELSE IF ~truthy(st1.retryable_exceptions) /\ ~is_retryable_error(e)
        THEN wrapper_raise(st1, e)
        ELSE LET delay == calculate_delay(st1.attempt, st1.initial_delay, st1.backoff_multiplier, st1.max_delay)
             IN  IF delay.kind = "raise"
                 THEN wrapper_raise(st1, delay.exc)
                 ELSE [st1 EXCEPT !.pc = "sleep", !.sleeps = Append(@, delay.value)]

\* `return await func(...)` of async_wrapper when func returns v
async_wrapper_return(st, v) ==
    [st EXCEPT !.pc = "returned", !.result = Returned(v), !.outcomes = Append(@, Returned(v))]

---------------------------------------------------------------------------
(* Actions of one call c.  They change calls[c] alone: the wrapper's       *)
(* locals are per call.                                                    *)

\* the caller calls the wrapped function: last_error = None, first loop index
SyncCall(c) ==
    /\ calls[c].wrapper = "sync" /\ calls[c].pc = "idle"
    /\ calls' = [calls EXCEPT ![c] = sync_wrapper_for([@ EXCEPT !.last_error = None], 0)]

\* func finishes with outcome o
SyncFuncDone(c, o) ==
    /\ calls[c].wrapper = "sync" /\ calls[c].pc = "func"
    /\ calls' = [calls EXCEPT ![c] = IF o.kind = "return"
                                     THEN sync_wrapper_return(@, o.value)
                                     ELSE sync_wrapper_except(@, o.exc)]

\* time.sleep(delay) returns: next loop index
SyncSleepDone(c) ==
    /\ calls[c].wrapper = "sync" /\ calls[c].pc = "sleep"
    /\ calls' = [calls EXCEPT ![c] = sync_wrapper_for(@, @.attempt + 1)]

AsyncCall(c) ==
    /\ calls[c].wrapper = "async" /\ calls[c].pc = "idle"
    /\ calls' = [calls EXCEPT ![c] = async_wrapper_for([@ EXCEPT !.last_error = None], 0)]

AsyncFuncDone(c, o) ==
    /\ calls[c].wrapper = "async" /\ calls[c].pc = "func"
    /\ calls' = [calls EXCEPT ![c] = IF o.kind = "return"
                                     THEN async_wrapper_return(@, o.value)
                                     ELSE async_wrapper_except(@, o.exc)]

\* AsyncSleepDone with the attempt counter kept on the shared client instead of in the call
AsyncSleepDone_shared_counter(c) ==
    /\ calls[c].wrapper = "async" /\ calls[c].pc = "sleep"
    /\ LET shared == CHOOSE n \in {calls[d].attempt : d \in DOMAIN calls} :
                        \A d \in DOMAIN calls : calls[d].attempt <= n
       IN  calls' = [calls EXCEPT ![c] = async_wrapper_for(@, shared + 1)]

\* await asyncio.sleep(delay) resumes: next loop index
AsyncSleepDone(c) ==
    /\ calls[c].wrapper = "async" /\ calls[c].pc = "sleep"
    /\ calls' = [calls EXCEPT ![c] = async_wrapper_for(@, @.attempt + 1)]

---------------------------------------------------------------------------
(* Spec: one decorated operation run once through sync_wrapper (call "s")  *)
(* and once through async_wrapper (call "a"), with the same decorator      *)
(* arguments.  The operation's i-th invocation has the same outcome in     *)
(* both runs: the run that gets there first draws it, the other replays.   *)

MaxRetries == 2

FuncOutcomes ==
    { Returned("success"),
      Raised(SecretAINetworkError(<<"N","e","t","w","o","r","k"," ","e","r","r","o","r">>, None)),
      Raised(SecretAIResponseError(<<"I","n","v","a","l","i","d"," ","r","e","s","p","o","n","s","e">>, None)),
      Raised(BuiltinError("ValueError", <<"I","n","v","a","l","i","d"," ","i","n","p","u","t">>)),
      Raised(BuiltinError("Exception", <<"5","0","2"," ","B","a","d"," ","G","a","t","e","w","a","y">>)) }

Filters ==
    { NoFilter, Filter({}), Filter({"SecretAINetworkError"}), Filter({"ValueError"}), Filter({"SecretAIError"}) }

\* <<initial_delay, backoff_multiplier, max_delay>>
DelaySettings == { <<1, 2, 30>>, <<1, 3, 5>> }

\* the i-th outcome of the operation: replayed if already drawn, else drawn now
Scripted(c, o) ==
    LET i == Len(calls[c].outcomes) + 1
    IN  IF i <= Len(script)
        THEN o = script[i] /\ UNCHANGED script
        ELSE script' = Append(script, o)

Init ==
    /\ \E m \in (-1)..MaxRetries, f \in Filters, d \in DelaySettings :
          calls = [c \in {"s", "a"} |->
                      NewCall(IF c = "s" THEN "sync" ELSE "async", "operation", m, d[1], d[2], d[3], f)]
    /\ script = <<>>
    /\ error = None
    /\ verdict = <<>>
    /\ env = <<>>
    /\ client = Pending
    /\ args = <<>>
    /\ results = <<>>
    /\ wire = <<>>
    /\ cancelled = FALSE

cvars == <<error, verdict, env, client, args, results, wire, cancelled>>

SyncCallStep == \E c \in DOMAIN calls : SyncCall(c) /\ UNCHANGED <<script, cvars>>
AsyncCallStep == \E c \in DOMAIN calls : AsyncCall(c) /\ UNCHANGED <<script, cvars>>
SyncFuncStep ==
    \E c \in DOMAIN calls, o \in FuncOutcomes : SyncFuncDone(c, o) /\ Scripted(c, o) /\ UNCHANGED cvars
AsyncFuncStep ==
    \E c \in DOMAIN calls, o \in FuncOutcomes : AsyncFuncDone(c, o) /\ Scripted(c, o) /\ UNCHANGED cvars
SyncSleepStep == \E c \in DOMAIN calls : SyncSleepDone(c) /\ UNCHANGED <<script, cvars>>
AsyncSleepStep == \E c \in DOMAIN calls : AsyncSleepDone(c) /\ UNCHANGED <<script, cvars>>

Next ==
    \/ SyncCallStep
    \/ AsyncCallStep
    \/ SyncFuncStep
    \/ AsyncFuncStep
    \/ SyncSleepStep
    \/ AsyncSleepStep

Spec == Init /\ [][Next]_vars

---------------------------------------------------------------------------
(* Properties of a retry-wrapped call (Spec) *)

CallDone(c) == calls[c].pc \in {"returned", "raised"}

\* e is an error the call's retry policy retries: the filter if one is in force, else the classifier
PolicyRetryable(st, e) ==
    IF truthy(st.retryable_exceptions)
    THEN isinstance(e, st.retryable_exceptions.types)
    ELSE is_retryable_error(e)

\* the first n invocations of the call all failed with errors its policy retries
FailedRetryably(st, n) ==
    \A i \in 1..n : st.outcomes[i].kind = "raise" /\ PolicyRetryable(st, st.outcomes[i].exc)

IsRetryExhausted(r) == r.kind = "raise" /\ r.exc.cls = "SecretAIRetryExhaustedError"

\* C1: for max_retries = m >= 0, a call whose every invocation failed with a
\* retryable error never makes more than m + 1 invocations, and it ends only
\* after exactly m + 1 of them, raising RetryExhausted with attempts = m + 1
\* and last_error = the error of invocation m + 1.
C1_Exhaustion ==
    \A c \in DOMAIN calls :
        LET st == calls[c]
            m == st.max_retries
            n == Len(st.outcomes)
        IN  (m >= 0 /\ FailedRetryably(st, n)) =>
                /\ n <= m + 1
                /\ CallDone(c) =>
                      /\ n = m + 1
                      /\ IsRetryExhausted(st.result)
                      /\ st.result.exc.attempts = m + 1
                      /\ st.result.exc.original_error = st.outcomes[m + 1].exc

C1_Witness ==
    \E c \in DOMAIN calls :
        /\ calls[c].max_retries = 2 /\ CallDone(c)
        /\ Len(calls[c].outcomes) = 3 /\ FailedRetryably(calls[c], 3)
        /\ IsRetryExhausted(calls[c].result) /\ calls[c].result.exc.attempts = 3

\* C2: after k <= max_retries retryable failures the call is still running
\* (it goes on to invocation k + 1); an invocation that succeeds is the last
\* one, and the call returns that invocation's value.
C2_SuccessAfterFailures ==
    \A c \in DOMAIN calls :
        LET st == calls[c]
            n == Len(st.outcomes)
        IN  /\ (n <= st.max_retries /\ FailedRetryably(st, n)) => ~CallDone(c)
            /\ \A i \in 1..n :
                  st.outcomes[i].kind = "return" =>
                      /\ i = n
                      /\ st.pc = "returned"
                      /\ st.result = Returned(st.outcomes[i].value)

C2_Witness ==
    \E c \in DOMAIN calls :
        /\ calls[c].max_retries = 2 /\ Len(calls[c].outcomes) = 3
        /\ FailedRetryably(calls[c], 2)
        /\ calls[c].outcomes[3] = Returned("success")
        /\ calls[c].result = Returned("success")

\* C3 (as claimed): with no filter and max_retries >= 0, a call whose invocation
\* failed with an error the classifier deems non-retryable raises that same
\* error, at whichever attempt it occurred.
C3_NonRetryableUnmodified ==
    \A c \in DOMAIN calls :
        LET st == calls[c]
            n == Len(st.outcomes)
        IN  (/\ ~truthy(st.retryable_exceptions) /\ st.max_retries >= 0
             /\ CallDone(c) /\ n >= 1
             /\ st.outcomes[n].kind = "raise"
             /\ ~is_retryable_error(st.outcomes[n].exc))
            => st.result = Raised(st.outcomes[n].exc)

\* C4 (as claimed): for max_retries >= 0, RetryExhausted is raised only after
\* exactly max_retries + 1 invocations whose final error the retry policy
\* treats as retryable.
C4_ExhaustedOnlyOnRetryable ==
    \A c \in DOMAIN calls :
        LET st == calls[c]
            n == Len(st.outcomes)
        IN  (st.max_retries >= 0 /\ CallDone(c) /\ IsRetryExhausted(st.result)) =>
                /\ n = st.max_retries + 1
                /\ st.outcomes[n].kind = "raise"
                /\ PolicyRetryable(st, st.outcomes[n].exc)

\* C5: in a call made without a retryable_exceptions filter, an invocation
\* that failed with an error for which is_retryable_error is false is the
\* call's last invocation: the call has ended, and the only sleeps are the
\* ones that preceded that invocation.
C5_NoAttemptAfterNonRetryable ==
    \A c \in DOMAIN calls :
        LET st == calls[c]
            n == Len(st.outcomes)
        IN  ~st.retryable_exceptions.given =>
                \A i \in 1..n :
                    (st.outcomes[i].kind = "raise" /\ ~is_retryable_error(st.outcomes[i].exc)) =>
                        /\ i = n
                        /\ st.pc = "raised"
                        /\ Len(st.sleeps) = i - 1

C5_Witness ==
    \E c \in DOMAIN calls :
        /\ ~calls[c].retryable_exceptions.given
        /\ calls[c].max_retries = 2 /\ Len(calls[c].outcomes) = 2
        /\ calls[c].outcomes[2].kind = "raise"
        /\ calls[c].outcomes[2].exc.cls = "SecretAIResponseError"
        /\ calls[c].pc = "raised" /\ Len(calls[c].sleeps) = 1

\* C6: run on the same outcomes with the same decorator arguments, the
\* sync_wrapper call and the async_wrapper call end with the same invocations,
\* the same sequence of sleep durations and the same result or error.
C6_AdaptersEquivalent ==
    (CallDone("s") /\ CallDone("a")) =>
        /\ calls["s"].outcomes = calls["a"].outcomes
        /\ calls["s"].sleeps = calls["a"].sleeps
        /\ calls["s"].result = calls["a"].result

C6_Witness ==
    /\ CallDone("s") /\ CallDone("a")
    /\ Len(calls["s"].outcomes) = 3 /\ Len(calls["a"].outcomes) = 3
    /\ Len(calls["a"].sleeps) = 2 /\ calls["a"].sleeps[1] # calls["a"].sleeps[2]
    /\ IsRetryExhausted(calls["s"].result) /\ IsRetryExhausted(calls["a"].result)

\* C21 (as claimed): in a call made with a retryable_exceptions filter (any
\* tuple, the empty one included), an invocation that failed with an error
\* that is no instance of a type the filter names is the call's last
\* invocation, no sleep follows it, and the call raises that same error.
C21_FilterRejects ==
    \A c \in DOMAIN calls :
        LET st == calls[c]
            n == Len(st.outcomes)
        IN  st.retryable_exceptions.given =>
                \A i \in 1..n :
                    (st.outcomes[i].kind = "raise"
                     /\ ~isinstance(st.outcomes[i].exc, st.retryable_exceptions.types)) =>
                        /\ i = n
                        /\ Len(st.sleeps) = i - 1
                        /\ st.result = Raised(st.outcomes[i].exc)

\* C22 (as claimed): in a call made with a retryable_exceptions filter, an
\* invocation that failed with an error that is an instance of a named type
\* but for which is_retryable_error is false is the call's last invocation,
\* and the call raises that same error.
C22_ClassifierAfterFilter ==
    \A c \in DOMAIN calls :
        LET st == calls[c]
            n == Len(st.outcomes)
        IN  st.retryable_exceptions.given =>
                \A i \in 1..n :
                    (/\ st.outcomes[i].kind = "raise"
                     /\ isinstance(st.outcomes[i].exc, st.retryable_exceptions.types)
                     /\ ~is_retryable_error(st.outcomes[i].exc)) =>
                        /\ i = n
                        /\ st.result = Raised(st.outcomes[i].exc)

\* C26 (as claimed): in every retry-wrapped call there is no wait before the
\* first invocation, the i-th wait follows the failed invocation i and lasts
\* calculate_delay(i - 1, initial_delay, multiplier, max_delay), a running
\* call has waited once per failed invocation, and a finished call, however
\* it ended, has made one invocation more than it has waited.
C26_WaitsBetweenAttempts ==
    \A c \in DOMAIN calls :
        LET st == calls[c]
            n == Len(st.outcomes)
            k == Len(st.sleeps)
        IN  /\ n = 0 => k = 0
            /\ \A i \in 1..k :
                  /\ i <= n /\ st.outcomes[i].kind = "raise"
                  /\ Returned(st.sleeps[i]) =
                         calculate_delay(i - 1, st.initial_delay, st.backoff_multiplier, st.max_delay)
            /\ st.pc \in {"func", "sleep"} => k = n
            /\ CallDone(c) => k = n - 1

---------------------------------------------------------------------------
(* SpecClassify: is_retryable_error applied to one exception.  The inputs  *)
(* are every exception class of secret_ai_ex.py and three built-in ones,   *)
(* built from texts that hold a keyword, a keyword in another case, a near *)
(* miss or none, padded on both sides.                                     *)

MaxPad == 1

RECURSIVE Pads(_)
Pads(n) == IF n = 0 THEN {<<>>} ELSE Pads(n - 1) \cup {Append(p, ch) : p \in Pads(n - 1), ch \in {"2", "t", "X"}}

MessageCores ==
    { <<"t","i","m","e","o","u","t">>,
      <<"t","i","m","e","d"," ","o","u","t">>,
      <<"c","o","n","n","e","c","t","i","o","n">>,
      <<"n","e","t","w","o","r","k">>,
      <<"t","e","m","p","o","r","a","r","i","l","y"," ","u","n","a","v","a","i","l","a","b","l","e">>,
      <<"s","e","r","v","i","c","e"," ","u","n","a","v","a","i","l","a","b","l","e">>,
      <<"5","0","2">>,
      <<"5","0","3">>,
      <<"5","0","4">>,
      <<"g","a","t","e","w","a","y"," ","t","i","m","e","o","u","t">>,
      <<"T","i","m","e","o","u","t">>,
      <<"T","I","M","E","D"," ","O","U","T">>,
      <<"C","o","n","n","e","c","t","i","o","n">>,
      <<"N","E","T","W","O","R","K">>,
      <<"T","e","m","p","o","r","a","r","i","l","y"," ","U","n","a","v","a","i","l","a","b","l","e">>,
      <<"G","a","t","e","w","a","y"," ","T","i","m","e","o","u","t">>,
      <<"t","i","m","e"," ","o","u","t">>,
      <<"t","i","m","e","o","u">>,
      <<"c","o","n","n","e","x","i","o","n">>,
      <<"n","e","t"," ","w","o","r","k">>,
      <<"t","e","m","p","o","r","a","r","i","l","y">>,
      <<"u","n","a","v","a","i","l","a","b","l","e">>,
      <<"5","0">>,
      <<"5","0","5">>,
      <<"g","a","t","e","w","a","y">>,
      <<"I","n","v","a","l","i","d"," ","i","n","p","u","t">>,
      <<"M","i","s","s","i","n","g"," ","k","e","y">>,
      <<"5","0","2"," ","B","a","d"," ","G","a","t","e","w","a","y">>,
      <<"S","e","r","v","i","c","e"," ","t","e","m","p","o","r","a","r","i","l","y"," ","u","n","a","v","a","i","l","a","b","l","e">>,
      <<"C","o","n","n","e","c","t","i","o","n"," ","t","i","m","e","o","u","t">>,
      <<"N","e","t","w","o","r","k"," ","e","r","r","o","r">>,
      <<"I","n","v","a","l","i","d"," ","r","e","s","p","o","n","s","e">>,
      <<>> }

Messages == {pre \o core \o suf : pre \in Pads(MaxPad), core \in MessageCores, suf \in Pads(MaxPad)}

ClassifierInputs ==
    {SecretAINotImplementedError, SecretAIAPIKeyMissingError}
    \cup {SecretAIError(t) : t \in Messages}
    \cup {SecretAIInvalidInputError(t) : t \in Messages}
    \cup {SecretAISecretValueMissingError(t) : t \in Messages}
    \cup {SecretAINetworkError(t, None) : t \in Messages}
    \cup {SecretAITimeoutError(<<"3","0",".","0">>, t) : t \in Messages}
    \cup {SecretAIRetryExhaustedError(3, BuiltinError("ValueError", t)) : t \in Messages}
    \cup {SecretAIResponseError(t, None) : t \in Messages}
    \cup {SecretAIConnectionError(t, None) : t \in Messages}
    \cup {BuiltinError(cls, t) : cls \in {"Exception", "ValueError", "KeyError"}, t \in Messages}

InitClassify ==
    /\ error \in ClassifierInputs
    /\ verdict = <<>>
    /\ calls = <<>>
    /\ script = <<>>
    /\ env = <<>>
    /\ client = Pending
    /\ args = <<>>
    /\ results = <<>>
    /\ wire = <<>>
    /\ cancelled = FALSE

\* is_retryable_error(error) is called and returns
Classify ==
    /\ verdict = <<>>
    /\ verdict' = <<is_retryable_error(error)>>
    /\ UNCHANGED <<error, calls, script, env, client, args, results, wire, cancelled>>

NextClassify == Classify

SpecClassify == InitClassify /\ [][NextClassify]_vars

---------------------------------------------------------------------------
(* Properties of the classifier (SpecClassify) *)

TenKeywords ==
    { <<"t","i","m","e","o","u","t">>,
      <<"t","i","m","e","d"," ","o","u","t">>,
      <<"c","o","n","n","e","c","t","i","o","n">>,
      <<"n","e","t","w","o","r","k">>,
      <<"t","e","m","p","o","r","a","r","i","l","y"," ","u","n","a","v","a","i","l","a","b","l","e">>,
      <<"s","e","r","v","i","c","e"," ","u","n","a","v","a","i","l","a","b","l","e">>,
      <<"5","0","2">>,
      <<"5","0","3">>,
      <<"5","0","4">>,
      <<"g","a","t","e","w","a","y"," ","t","i","m","e","o","u","t">> }

\* text t holds keyword k: some run of consecutive characters of t is k
Holds(t, k) == \E i \in 1..(Len(t) + 1), j \in 0..Len(t) : SubSeq(t, i, j) = k

HoldsKeyword(t) == \E k \in TenKeywords : Holds(lower(t), k)

ConfigErrorClasses ==
    {"SecretAIInvalidInputError", "SecretAIAPIKeyMissingError", "SecretAISecretValueMissingError"}

OpaqueClasses == {"Exception", "ValueError", "KeyError"}

\* C8: is_retryable_error is true for every NetworkError, Timeout and
\* Connection error and false for every ResponseError, whatever the message
\* holds.
C8_KindBeforeText ==
    verdict # <<>> =>
        /\ error.cls \in {"SecretAINetworkError", "SecretAITimeoutError", "SecretAIConnectionError"}
              => verdict = <<TRUE>>
        /\ error.cls = "SecretAIResponseError" => verdict = <<FALSE>>

C8_Witness ==
    /\ error.cls = "SecretAIResponseError"
    /\ HoldsKeyword(str(error))
    /\ verdict = <<FALSE>>

\* C9 (as claimed): is_retryable_error is false for every ConfigError,
\* whatever its message holds.
C9_ConfigErrorNeverRetryable ==
    (verdict # <<>> /\ error.cls \in ConfigErrorClasses) => verdict = <<FALSE>>

\* C10: for an error of none of the SDK's kinds, is_retryable_error is true
\* if and only if the lower-cased message holds one of the ten keywords.
C10_OpaqueByKeyword ==
    (verdict # <<>> /\ error.cls \in OpaqueClasses) =>
        (verdict = <<TRUE>>) = HoldsKeyword(error.arg)

C10_Witness ==
    /\ error.cls \in OpaqueClasses
    /\ verdict = <<TRUE>>
    /\ HoldsKeyword(error.arg)
    /\ \A k \in TenKeywords : ~Holds(error.arg, k)

---------------------------------------------------------------------------
(* _config.py and the configuration readers of _retry.py *)

REQUEST_TIMEOUT_DEFAULT == 30
CONNECT_TIMEOUT_DEFAULT == 10
MAX_RETRIES_DEFAULT == 3
RETRY_DELAY_DEFAULT == 1
RETRY_BACKOFF_DEFAULT == 2
MAX_RETRY_DELAY_DEFAULT == 30

\* int(text) of a decimal numeral
RECURSIVE nat_of(_)
nat_of(s) ==
    IF s = <<>> THEN 0
    ELSE 10 * nat_of(SubSeq(s, 1, Len(s) - 1))
         + (CHOOSE d \in 0..9 : Digits[d + 1] = s[Len(s)])

int_of(s) == IF s # <<>> /\ s[1] = "-" THEN 0 - nat_of(Tail(s)) ELSE nat_of(s)

\* float(text) of a whole number of ticks
float_of(s) == int_of(s)

\* f'{x}' of a float holding a whole number
float_str(x) == int_str(x) \o <<".","0">>

\* if_not_None written as `x or d`: a supplied 0 is replaced as well
if_not_None_or(x, d) == IF x # <<>> /\ x[1] # 0 THEN x[1] ELSE d

\* `x if x is not None else d`; an optional argument is <<>> (None) or <<x>>
if_not_None(x, d) == IF x # <<>> THEN x[1] ELSE d

\* os.getenv(name): <<>> (None) or <<text>>
getenv(ev, name) == IF name \in DOMAIN ev THEN <<ev[name]>> ELSE <<>>

get_retry_config(ev) ==
    [max_retries |->
        IF getenv(ev, "SECRET_AI_MAX_RETRIES") # <<>>
        THEN int_of(getenv(ev, "SECRET_AI_MAX_RETRIES")[1]) ELSE MAX_RETRIES_DEFAULT,
     initial_delay |->
        IF getenv(ev, "SECRET_AI_RETRY_DELAY") # <<>>
        THEN float_of(getenv(ev, "SECRET_AI_RETRY_DELAY")[1]) ELSE RETRY_DELAY_DEFAULT,
     backoff_multiplier |->
        IF getenv(ev, "SECRET_AI_RETRY_BACKOFF") # <<>>
        THEN float_of(getenv(ev, "SECRET_AI_RETRY_BACKOFF")[1]) ELSE RETRY_BACKOFF_DEFAULT,
     max_delay |->
        IF getenv(ev, "SECRET_AI_MAX_RETRY_DELAY") # <<>>
        THEN float_of(getenv(ev, "SECRET_AI_MAX_RETRY_DELAY")[1]) ELSE MAX_RETRY_DELAY_DEFAULT]

get_timeout_config(ev) ==
    [request_timeout |->
        IF getenv(ev, "SECRET_AI_REQUEST_TIMEOUT") # <<>>
        THEN float_of(getenv(ev, "SECRET_AI_REQUEST_TIMEOUT")[1]) ELSE REQUEST_TIMEOUT_DEFAULT,
     connect_timeout |->
        IF getenv(ev, "SECRET_AI_CONNECT_TIMEOUT") # <<>>
        THEN float_of(getenv(ev, "SECRET_AI_CONNECT_TIMEOUT")[1]) ELSE CONNECT_TIMEOUT_DEFAULT]

\* retry_with_backoff(...): the values the decorator closes over
retry_with_backoff(ev, max_retries, initial_delay, backoff_multiplier, max_delay, retryable_exceptions) ==
    LET config == get_retry_config(ev)
    IN  [max_retries |-> if_not_None(max_retries, config.max_retries),
         initial_delay |-> if_not_None(initial_delay, config.initial_delay),
         backoff_multiplier |-> if_not_None(backoff_multiplier, config.backoff_multiplier),
         max_delay |-> if_not_None(max_delay, config.max_delay),
         retryable_exceptions |-> retryable_exceptions]

---------------------------------------------------------------------------
(* _enhanced_client.py: EnhancedSecretAIAsyncClient.  Python values that   *)
(* a response can be: None, a str, an int, a dict (key -> value).          *)

PyStr(t) == [cls |-> "str", s |-> t]
PyInt(n) == [cls |-> "int", n |-> n]
PyDict(f) == [cls |-> "dict", items |-> f]

\* f'{v}' of a value
py_format(v) ==
    CASE v.cls = "str" -> v.s
      [] v.cls = "int" -> int_str(v.n)
      [] v.cls = "NoneType" -> <<"N","o","n","e">>

\* type(v).__name__ as TypeError's message quotes it
py_type_name(v) ==
    CASE v.cls = "NoneType" -> <<"N","o","n","e","T","y","p","e">>
      [] v.cls = "int" -> <<"i","n","t">>

\* `'content' not in m`: Returned(b), or the TypeError of a value that is no container
content_not_in(m) ==
    CASE m.cls = "dict" -> Returned("content" \notin DOMAIN m.items)
      [] m.cls = "str" -> Returned(~str_in(<<"c","o","n","t","e","n","t">>, m.s))
      [] OTHER -> Raised(BuiltinError("TypeError",
                     <<"a","r","g","u","m","e","n","t"," ","o","f"," ","t","y","p","e"," ","'">>
                     \o py_type_name(m) \o <<"'"," ","i","s"," ","n","o","t"," ","i","t","e","r","a","b","l","e">>))

\* __init__(host, api_key, timeout, connect_timeout, max_retries, retry_delay,
\* retry_backoff, validate_responses, **kwargs) with a the arguments and
\* super_init the outcome of OllamaAsyncClient.__init__
AsyncClient_init(ev, a, super_init) ==
    LET api_key == IF a.api_key = <<>> THEN getenv(ev, "SECRET_AI_API_KEY") ELSE a.api_key
        timeout_config == get_timeout_config(ev)
        retry_config == get_retry_config(ev)
        auth == <<"B","e","a","r","e","r"," ">> \o api_key[1]
        self == [request_timeout |-> if_not_None(a.timeout, timeout_config.request_timeout),
                 connect_timeout |-> if_not_None(a.connect_timeout, timeout_config.connect_timeout),
                 max_retries |-> if_not_None(a.max_retries, retry_config.max_retries),
                 retry_delay |-> if_not_None(a.retry_delay, retry_config.initial_delay),
                 retry_backoff |-> if_not_None(a.retry_backoff, retry_config.backoff_multiplier),
                 validate_responses |-> a.validate_responses,
                 host |-> a.host,
                 headers |-> [k \in DOMAIN a.headers \cup {"Authorization"} |->
                                 IF k = "Authorization" THEN auth ELSE a.headers[k]]]
    IN  IF api_key = <<>> \/ api_key[1] = <<>>
        THEN Raised(SecretAIAPIKeyMissingError)
        ELSE IF super_init.kind = "raise"
        THEN Raised(SecretAIConnectionError(
                 IF a.host = <<>> \/ a.host[1] = <<>> THEN <<"d","e","f","a","u","l","t">> ELSE a.host[1],
                 super_init.exc))
        ELSE Returned(self)

\* self.host or "default"
host_or_default(self) ==
    IF self.host = <<>> \/ self.host[1] = <<>> THEN <<"d","e","f","a","u","l","t">> ELSE self.host[1]

\* _validate_response(self, response): Returned(None), or the exception it raises
AsyncClient_validate_response(self, response) ==
    IF ~self.validate_responses THEN Returned(None)
    ELSE IF response = None
    THEN Raised(SecretAIResponseError(
             <<"R","e","c","e","i","v","e","d"," ","n","u","l","l"," ","r","e","s","p","o","n","s","e">>, response))
    ELSE IF response.cls = "dict"
    THEN IF "error" \in DOMAIN response.items
         THEN Raised(SecretAIResponseError(
                  <<"S","e","r","v","e","r"," ","r","e","t","u","r","n","e","d"," ","e","r","r","o","r",":"," ">>
                  \o py_format(response.items["error"]), response))
         ELSE IF "message" \in DOMAIN response.items
         THEN LET test == content_not_in(response.items["message"])
              IN  IF test.kind = "raise" THEN test ELSE Returned(None)
         ELSE Returned(None)
    ELSE Returned(None)

\* generate(self, ...) when super().generate(...) has outcome t
AsyncClient_generate(self, t) ==
    LET checked == IF t.kind = "return" THEN AsyncClient_validate_response(self, t.value) ELSE t
    IN  IF checked.kind = "return" THEN Returned(t.value)
        ELSE LET e == checked.exc
             IN  IF isinstance(e, {"TimeoutException"})
                 THEN Raised(SecretAITimeoutError(float_str(self.request_timeout), <<"g","e","n","e","r","a","t","e">>))
                 ELSE IF isinstance(e, {"ConnectError"})
                 THEN Raised(SecretAIConnectionError(host_or_default(self), e))
                 ELSE IF isinstance(e, {"SecretAITimeoutError", "SecretAIConnectionError", "SecretAIResponseError"})
                 THEN Raised(e)
                 ELSE Raised(SecretAINetworkError(
                          <<"G","e","n","e","r","a","t","e"," ","f","a","i","l","e","d",":"," ">> \o str(e), e))

\* chat(self, ...) when super().chat(...) has outcome t
AsyncClient_chat(self, t) ==
    LET checked == IF t.kind = "return" THEN AsyncClient_validate_response(self, t.value) ELSE t
    IN  IF checked.kind = "return" THEN Returned(t.value)
        ELSE LET e == checked.exc
             IN  IF isinstance(e, {"TimeoutException"})
                 THEN Raised(SecretAITimeoutError(float_str(self.request_timeout), <<"c","h","a","t">>))
                 ELSE IF isinstance(e, {"ConnectError"})
                 THEN Raised(SecretAIConnectionError(host_or_default(self), e))
                 ELSE IF isinstance(e, {"SecretAITimeoutError", "SecretAIConnectionError", "SecretAIResponseError"})
                 THEN Raised(e)
                 ELSE Raised(SecretAINetworkError(
                          <<"C","h","a","t"," ","f","a","i","l","e","d",":"," ">> \o str(e), e))

---------------------------------------------------------------------------
(* SpecClient: one EnhancedSecretAIAsyncClient and two concurrent calls of *)
(* its generate/chat, each an activation of async_wrapper around the       *)
(* method, interleaved at the transport calls and at the sleeps.           *)

ClientEnvs ==
    { [SECRET_AI_API_KEY |-> <<"e","n","v","-","k","e","y">>],
      [SECRET_AI_API_KEY |-> <<"e","n","v","-","k","e","y">>, SECRET_AI_MAX_RETRIES |-> <<"1">>],
      [SECRET_AI_MAX_RETRIES |-> <<"2">>, SECRET_AI_RETRY_DELAY |-> <<"2">>,
       SECRET_AI_RETRY_BACKOFF |-> <<"3">>, SECRET_AI_MAX_RETRY_DELAY |-> <<"5">>],
      [SECRET_AI_API_KEY |-> <<>>, SECRET_AI_MAX_RETRIES |-> <<"0">>] }

NoArgs ==
    [host |-> <<>>, api_key |-> <<>>, timeout |-> <<>>, connect_timeout |-> <<>>,
     max_retries |-> <<>>, retry_delay |-> <<>>, retry_backoff |-> <<>>,
     validate_responses |-> TRUE, headers |-> <<>>]

ClientArgs ==
    { NoArgs,
      [NoArgs EXCEPT !.host = << <<"l","o","c","a","l","h","o","s","t">> >>,
                     !.api_key = << <<"s","k","-","k","e","y">> >>,
                     !.max_retries = <<0>>,
                     !.validate_responses = FALSE] }

TransportOutcomes ==
    { Returned(PyDict([response |-> PyStr(<<"h","e","l","l","o">>)])),
      Returned(PyDict([error |-> PyStr(<<"m","o","d","e","l"," ","n","o","t"," ","f","o","u","n","d">>)])),
      Raised(BuiltinError("TimeoutException", <<"t","i","m","e","d"," ","o","u","t">>)),
      Raised(BuiltinError("ConnectError", <<"c","o","n","n","e","c","t","i","o","n"," ","r","e","f","u","s","e","d">>)),
      Raised(BuiltinError("Exception", <<"I","n","v","a","l","i","d"," ","i","n","p","u","t">>)) }

InitClient ==
    /\ env \in ClientEnvs
    /\ \E a \in ClientArgs : client = AsyncClient_init(env, a, Returned(None))
    /\ \E f1 \in {"generate"}, f2 \in {"generate", "chat"} :
          LET deco == retry_with_backoff(env, <<>>, <<>>, <<>>, <<>>, NoFilter)
          IN  calls = IF client.kind = "return"
                      THEN [c \in {1, 2} |->
                               NewCall("async", IF c = 1 THEN f1 ELSE f2, deco.max_retries, deco.initial_delay,
                                       deco.backoff_multiplier, deco.max_delay, deco.retryable_exceptions)]
                      ELSE <<>>
    /\ script = <<>>
    /\ error = None
    /\ verdict = <<>>
    /\ args = <<>>
    /\ results = <<>>
    /\ wire = <<>>
    /\ cancelled = FALSE

\* the method body of call c finishes after its transport call had outcome t
ClientFuncStep ==
    \E c \in DOMAIN calls, t \in TransportOutcomes :
        /\ calls[c].func \in {"generate", "chat"}
        /\ AsyncFuncDone(c, IF calls[c].func = "generate"
                            THEN AsyncClient_generate(client.value, t)
                            ELSE AsyncClient_chat(client.value, t))
        /\ UNCHANGED <<script, cvars>>

NextClient ==
    \/ AsyncCallStep
    \/ ClientFuncStep
    \/ AsyncSleepStep

SpecClient == InitClient /\ [][NextClient]_vars

---------------------------------------------------------------------------
(* Properties of concurrent client calls (SpecClient) *)

\* C7: with two calls interleaved on one client, a call whose every
\* invocation failed with a retryable error makes at most max_retries + 1
\* invocations whatever the other call does, and ends in RetryExhausted with
\* attempts = max_retries + 1 and its own last error; when both calls are
\* such, the transport was invoked 2 * (max_retries + 1) times in all.
C7_PerCallBudgets ==
    /\ \A c \in DOMAIN calls :
          LET st == calls[c]
              n == Len(st.outcomes)
          IN  FailedRetryably(st, n) =>
                  /\ n <= st.max_retries + 1
                  /\ CallDone(c) =>
                        /\ IsRetryExhausted(st.result)
                        /\ st.result.exc.attempts = st.max_retries + 1
                        /\ st.result.exc.original_error = st.outcomes[n].exc
    /\ (/\ DOMAIN calls = {1, 2}
        /\ \A c \in DOMAIN calls : CallDone(c) /\ FailedRetryably(calls[c], Len(calls[c].outcomes)))
       => Len(calls[1].outcomes) + Len(calls[2].outcomes) = 2 * (calls[1].max_retries + 1)

C7_Witness ==
    /\ DOMAIN calls = {1, 2}
    /\ \A c \in DOMAIN calls :
          /\ CallDone(c) /\ FailedRetryably(calls[c], Len(calls[c].outcomes))
          /\ IsRetryExhausted(calls[c].result)
          /\ calls[c].result.exc.attempts = 4
    /\ Len(calls[1].outcomes) + Len(calls[2].outcomes) = 8
    /\ calls[1].last_error # calls[2].last_error

---------------------------------------------------------------------------
(* What the constructors hand to the ollama client: the call               *)
(* super().__init__(host, **kwargs) as a record of its host and of         *)
(* kwargs['headers'], in a sequence that is empty when the constructor     *)
(* raises before it gets there.                                            *)

\* f'Bearer {api_key}'
bearer(api_key) == <<"B","e","a","r","e","r"," ">> \o api_key

\* merge_headers in the other order, {**auth, **headers}: the caller's entries win
merge_headers_caller_wins(headers, auth) ==
    [k \in DOMAIN headers \cup DOMAIN auth |-> IF k \in DOMAIN headers THEN headers[k] ELSE auth[k]]

\* {**kwargs.get('headers', {}), **auth}: the entries of auth replace the caller's
merge_headers(headers, auth) ==
    [k \in DOMAIN headers \cup DOMAIN auth |-> IF k \in DOMAIN auth THEN auth[k] ELSE headers[k]]

AsyncClient_super_init(ev, a) ==
    LET api_key == IF a.api_key = <<>> THEN getenv(ev, "SECRET_AI_API_KEY") ELSE a.api_key
    IN  IF api_key = <<>> \/ api_key[1] = <<>>
        THEN <<>>
        ELSE << [op |-> "__init__", host |-> a.host,
                 headers |-> merge_headers(a.headers, [Authorization |-> bearer(api_key[1])])] >>

---------------------------------------------------------------------------
(* _enhanced_client.py: EnhancedSecretAIClient *)

\* EnhancedSecretAIClient.__init__ with a the arguments and super_init the
\* outcome of OllamaClient.__init__
SyncClient_init(ev, a, super_init) ==
    LET api_key == IF a.api_key = <<>> THEN getenv(ev, "SECRET_AI_API_KEY") ELSE a.api_key
        timeout_config == get_timeout_config(ev)
        retry_config == get_retry_config(ev)
        self == [request_timeout |-> if_not_None(a.timeout, timeout_config.request_timeout),
                 connect_timeout |-> if_not_None(a.connect_timeout, timeout_config.connect_timeout),
                 max_retries |-> if_not_None(a.max_retries, retry_config.max_retries),
                 retry_delay |-> if_not_None(a.retry_delay, retry_config.initial_delay),
                 retry_backoff |-> if_not_None(a.retry_backoff, retry_config.backoff_multiplier),
                 validate_responses |-> a.validate_responses,
                 host |-> a.host,
                 headers |-> merge_headers(a.headers, [Authorization |-> bearer(api_key[1])])]
    IN  IF api_key = <<>> \/ api_key[1] = <<>>
        THEN Raised(SecretAIAPIKeyMissingError)
        ELSE IF super_init.kind = "raise"
        THEN Raised(SecretAIConnectionError(
                 IF a.host = <<>> \/ a.host[1] = <<>> THEN <<"d","e","f","a","u","l","t">> ELSE a.host[1],
                 super_init.exc))
        ELSE Returned(self)

\* SyncClient_super_init with the API key tested only after super().__init__
SyncClient_super_init_key_check_late(ev, a) ==
    LET api_key == IF a.api_key = <<>> THEN getenv(ev, "SECRET_AI_API_KEY") ELSE a.api_key
    IN  << [op |-> "__init__", host |-> a.host,
            headers |-> merge_headers(a.headers,
                            [Authorization |-> bearer(IF api_key = <<>> THEN <<"N","o","n","e">> ELSE api_key[1])])] >>

SyncClient_super_init(ev, a) ==
    LET api_key == IF a.api_key = <<>> THEN getenv(ev, "SECRET_AI_API_KEY") ELSE a.api_key
    IN  IF api_key = <<>> \/ api_key[1] = <<>>
        THEN <<>>
        ELSE << [op |-> "__init__", host |-> a.host,
                 headers |-> merge_headers(a.headers, [Authorization |-> bearer(api_key[1])])] >>

\* _validate_response(self, response): Returned(None), or the exception it raises
SyncClient_validate_response(self, response) ==
    IF ~self.validate_responses THEN Returned(None)
    ELSE IF response = None
    THEN Raised(SecretAIResponseError(
             <<"R","e","c","e","i","v","e","d"," ","n","u","l","l"," ","r","e","s","p","o","n","s","e">>, response))
    ELSE IF response.cls = "dict"
    THEN IF "error" \in DOMAIN response.items
         THEN Raised(SecretAIResponseError(
                  <<"S","e","r","v","e","r"," ","r","e","t","u","r","n","e","d"," ","e","r","r","o","r",":"," ">>
                  \o py_format(response.items["error"]), response))
         ELSE IF "message" \in DOMAIN response.items
         THEN LET test == content_not_in(response.items["message"])
              IN  IF test.kind = "raise" THEN test ELSE Returned(None)
         ELSE Returned(None)
    ELSE Returned(None)

\* SyncClient_generate without the last handler: an unexpected exception is not wrapped
SyncClient_generate_unwrapped(self, t) ==
    LET checked == IF t.kind = "return" THEN SyncClient_validate_response(self, t.value) ELSE t
    IN  IF checked.kind = "return" THEN Returned(t.value)
        ELSE LET e == checked.exc
             IN  IF isinstance(e, {"TimeoutException"})
                 THEN Raised(SecretAITimeoutError(float_str(self.request_timeout), <<"g","e","n","e","r","a","t","e">>))
                 ELSE IF isinstance(e, {"ConnectError"})
                 THEN Raised(SecretAIConnectionError(host_or_default(self), e))
                 ELSE Raised(e)

\* generate(self, ...) when super().generate(...) has outcome t
SyncClient_generate(self, t) ==
    LET checked == IF t.kind = "return" THEN SyncClient_validate_response(self, t.value) ELSE t
    IN  IF checked.kind = "return" THEN Returned(t.value)
        ELSE LET e == checked.exc
             IN  IF isinstance(e, {"TimeoutException"})
                 THEN Raised(SecretAITimeoutError(float_str(self.request_timeout), <<"g","e","n","e","r","a","t","e">>))
                 ELSE IF isinstance(e, {"ConnectError"})
                 THEN Raised(SecretAIConnectionError(host_or_default(self), e))
                 ELSE IF isinstance(e, {"SecretAITimeoutError", "SecretAIConnectionError", "SecretAIResponseError"})
                 THEN Raised(e)
                 ELSE Raised(SecretAINetworkError(
                          <<"G","e","n","e","r","a","t","e"," ","f","a","i","l","e","d",":"," ">> \o str(e), e))

\* chat(self, ...) when super().chat(...) has outcome t
SyncClient_chat(self, t) ==
    LET checked == IF t.kind = "return" THEN SyncClient_validate_response(self, t.value) ELSE t
    IN  IF checked.kind = "return" THEN Returned(t.value)
        ELSE LET e == checked.exc
             IN  IF isinstance(e, {"TimeoutException"})
                 THEN Raised(SecretAITimeoutError(float_str(self.request_timeout), <<"c","h","a","t">>))
                 ELSE IF isinstance(e, {"ConnectError"})
                 THEN Raised(SecretAIConnectionError(host_or_default(self), e))
                 ELSE IF isinstance(e, {"SecretAITimeoutError", "SecretAIConnectionError", "SecretAIResponseError"})
                 THEN Raised(e)
                 ELSE Raised(SecretAINetworkError(
                          <<"C","h","a","t"," ","f","a","i","l","e","d",":"," ">> \o str(e), e))

---------------------------------------------------------------------------
(* _client.py: SecretAIClient and SecretAIAsyncClient built with           *)
(* use_enhanced = False; the two __init__ have the same statements.        *)

\* SecretAIClient.__init__ / SecretAIAsyncClient.__init__ with super_init the outcome
\* of OllamaClient.__init__ / OllamaAsyncClient.__init__, which is not caught here
BasicClient_init(ev, a, super_init) ==
    LET api_key == IF a.api_key = <<>> THEN getenv(ev, "SECRET_AI_API_KEY") ELSE a.api_key
    IN  IF api_key = <<>> \/ api_key[1] = <<>>
        THEN Raised(SecretAIAPIKeyMissingError)
        ELSE IF super_init.kind = "raise"
        THEN super_init
        ELSE Returned([host |-> a.host, headers |-> [Authorization |-> bearer(api_key[1])]])

\* kwargs['headers'] = auth: the caller's headers are dropped
BasicClient_super_init(ev, a) ==
    LET api_key == IF a.api_key = <<>> THEN getenv(ev, "SECRET_AI_API_KEY") ELSE a.api_key
    IN  IF api_key = <<>> \/ api_key[1] = <<>>
        THEN <<>>
        ELSE << [op |-> "__init__", host |-> a.host, headers |-> [Authorization |-> bearer(api_key[1])]] >>

---------------------------------------------------------------------------
(* SpecSession: one client of one of the four classes is constructed and,  *)
(* if construction succeeded, one generate or chat call is made on it.     *)
(* args holds the class and the constructor's arguments; wire records the  *)
(* calls that reach the ollama client: its __init__, then each generate or *)
(* chat request, which carries the headers the ollama client was           *)
(* initialised with.                                                       *)

ClientClasses ==
    {"EnhancedSecretAIClient", "EnhancedSecretAIAsyncClient", "SecretAIClient", "SecretAIAsyncClient"}

SessionEnvs ==
    { <<>>,
      [SECRET_AI_API_KEY |-> <<"e","n","v","-","k","e","y">>],
      [SECRET_AI_API_KEY |-> <<"e","n","v","-","k","e","y">>, SECRET_AI_MAX_RETRIES |-> <<"1">>,
       SECRET_AI_RETRY_DELAY |-> <<"2">>, SECRET_AI_RETRY_BACKOFF |-> <<"3">>, SECRET_AI_MAX_RETRY_DELAY |-> <<"5">>],
      [SECRET_AI_API_KEY |-> <<>>, SECRET_AI_MAX_RETRIES |-> <<"1">>] }

SessionArgs ==
    { NoArgs,
      [NoArgs EXCEPT !.api_key = << <<>> >>],
      [NoArgs EXCEPT !.validate_responses = FALSE],
      [NoArgs EXCEPT !.host = << <<"l","o","c","a","l","h","o","s","t">> >>,
                     !.api_key = << <<"s","k","-","k","e","y">> >>,
                     !.max_retries = <<0>>],
      [NoArgs EXCEPT !.api_key = << <<"s","k","-","k","e","y">> >>,
                     !.max_retries = <<2>>, !.retry_delay = <<3>>, !.retry_backoff = <<1>>,
                     !.headers = [Authorization |-> <<"B","e","a","r","e","r"," ","i","n","t","r","u","d","e","r">>,
                                  Trace |-> <<"t","r","a","c","e","-","1">>]] }

\* outcomes of OllamaClient.__init__ / OllamaAsyncClient.__init__
SuperInitOutcomes ==
    { Returned(None), Raised(BuiltinError("ValueError", <<"b","a","d"," ","h","o","s","t">>)) }

\* outcomes of super().generate(...) / super().chat(...)
SessionOutcomes ==
    TransportOutcomes \cup
    { Returned(None),
      Returned(PyDict([message |-> PyDict([role |-> PyStr(<<"a","s","s","i","s","t","a","n","t">>)])])),
      Returned(PyDict([message |-> None])) }

InitSession ==
    /\ env \in SessionEnvs
    /\ args \in [class : ClientClasses, kwargs : SessionArgs]
    /\ client = Pending
    /\ calls = <<>>
    /\ wire = <<>>
    /\ script = <<>>
    /\ error = None
    /\ verdict = <<>>
    /\ results = <<>>
    /\ cancelled = FALSE

\* the constructor runs; afterwards the caller makes one generate or chat call
Construct ==
    /\ client = Pending
    /\ \E super_init \in SuperInitOutcomes, f \in {"generate", "chat"} :
          LET a == args.kwargs
              r == CASE args.class = "EnhancedSecretAIClient" -> SyncClient_init(env, a, super_init)
                     [] args.class = "EnhancedSecretAIAsyncClient" -> AsyncClient_init(env, a, super_init)
                     [] args.class \in {"SecretAIClient", "SecretAIAsyncClient"} -> BasicClient_init(env, a, super_init)
              issued == CASE args.class = "EnhancedSecretAIClient" -> SyncClient_super_init(env, a)
                          [] args.class = "EnhancedSecretAIAsyncClient" -> AsyncClient_super_init(env, a)
                          [] args.class \in {"SecretAIClient", "SecretAIAsyncClient"} -> BasicClient_super_init(env, a)
              wrapper == CASE args.class = "EnhancedSecretAIClient" -> "sync"
                           [] args.class = "EnhancedSecretAIAsyncClient" -> "async"
                           [] args.class \in {"SecretAIClient", "SecretAIAsyncClient"} -> "none"
              deco == retry_with_backoff(env, <<>>, <<>>, <<>>, <<>>, NoFilter)
          IN  /\ client' = r
              /\ wire' = issued
              /\ calls' = IF r.kind = "return"
                          THEN [c \in {1} |->
                                   NewCall(wrapper, f, deco.max_retries, deco.initial_delay,
                                           deco.backoff_multiplier, deco.max_delay, deco.retryable_exceptions)]
                          ELSE <<>>
    /\ UNCHANGED <<script, error, verdict, env, args, results, cancelled>>

\* the method body of an enhanced client's call, run by the wrapper's attempt, reaches
\* super().generate(...) / super().chat(...): the request goes to the ollama client,
\* carrying the headers fixed at its __init__, and the call waits for the transport
\* (the thread blocks, the coroutine is suspended). wire holds the __init__ and the
\* requests issued, script the outcomes delivered: a request is in flight when
\* Len(wire) = Len(script) + 2.
SessionRequestStep ==
    \E c \in DOMAIN calls :
        /\ calls[c].wrapper \in {"sync", "async"}
        /\ calls[c].pc = "func"
        /\ Len(wire) = Len(script) + 1
        /\ wire' = Append(wire, [op |-> calls[c].func, host |-> wire[1].host, headers |-> wire[1].headers])
        /\ UNCHANGED <<calls, script, error, verdict, env, client, args, results, cancelled>>

\* the transport delivers outcome t of the request in flight and the method body finishes
SessionFuncStep ==
    \E c \in DOMAIN calls, t \in SessionOutcomes :
        /\ calls[c].wrapper \in {"sync", "async"}
        /\ Len(wire) = Len(script) + 2
        /\ IF calls[c].wrapper = "sync"
           THEN SyncFuncDone(c, IF calls[c].func = "generate"
                                THEN SyncClient_generate(client.value, t)
                                ELSE SyncClient_chat(client.value, t))
           ELSE AsyncFuncDone(c, IF calls[c].func = "generate"
                                 THEN AsyncClient_generate(client.value, t)
                                 ELSE AsyncClient_chat(client.value, t))
        /\ script' = Append(script, t)
        /\ UNCHANGED <<error, verdict, env, client, args, results, wire, cancelled>>

\* generate/chat of SecretAIClient and SecretAIAsyncClient are the ollama client's own.
\* The call starts: its one request goes to the ollama client and the call waits for
\* the transport (SecretAIClient blocks its thread, SecretAIAsyncClient's coroutine
\* gives control back to the event loop); the result is still pending.
BasicCallStep ==
    \E c \in DOMAIN calls :
        /\ calls[c].wrapper = "none" /\ calls[c].pc = "idle"
        /\ calls' = [calls EXCEPT ![c] = [@ EXCEPT !.pc = "func"]]
        /\ wire' = Append(wire, [op |-> calls[c].func, host |-> wire[1].host, headers |-> wire[1].headers])
        /\ UNCHANGED <<script, error, verdict, env, client, args, results, cancelled>>

\* the transport delivers outcome t and the call resumes with it: the outcome is the call's
BasicFuncStep ==
    \E c \in DOMAIN calls, t \in SessionOutcomes :
        /\ calls[c].wrapper = "none" /\ calls[c].pc = "func"
        /\ calls' = [calls EXCEPT ![c] = [@ EXCEPT !.pc = IF t.kind = "return" THEN "returned" ELSE "raised",
                                                   !.result = t,
                                                   !.outcomes = <<t>>]]
        /\ script' = Append(script, t)
        /\ UNCHANGED <<error, verdict, env, client, args, results, wire, cancelled>>

NextSession ==
    \/ Construct
    \/ SyncCallStep
    \/ AsyncCallStep
    \/ SessionRequestStep
    \/ SessionFuncStep
    \/ BasicCallStep
    \/ BasicFuncStep
    \/ SyncSleepStep
    \/ AsyncSleepStep

SpecSession == InitSession /\ [][NextSession]_vars

---------------------------------------------------------------------------
(* Properties of a client session (SpecSession) *)

\* the call made on an enhanced client (through sync_wrapper or async_wrapper)
EnhancedCall(c) == calls[c].wrapper \in {"sync", "async"}

\* C12 (as claimed): on a client constructed with explicit max_retries = m,
\* retry_delay = d and retry_backoff = b, a generate/chat call makes at most
\* m + 1 transport invocations, reports RetryExhausted with attempts = m + 1,
\* and waits calculate_delay(i, d, b, max_delay) after its i-th failed attempt.
C12_ClientPolicyUsed ==
    \A c \in DOMAIN calls :
        LET st == calls[c]
            self == client.value
        IN  (/\ EnhancedCall(c)
             /\ args.kwargs.max_retries # <<>>
             /\ args.kwargs.retry_delay # <<>>
             /\ args.kwargs.retry_backoff # <<>>)
            => /\ Len(st.outcomes) <= self.max_retries + 1
               /\ IsRetryExhausted(st.result) => st.result.exc.attempts = self.max_retries + 1
               /\ \A i \in 1..Len(st.sleeps) :
                     Returned(st.sleeps[i]) =
                         calculate_delay(i - 1, self.retry_delay, self.retry_backoff, st.max_delay)

\* neither the api_key argument nor SECRET_AI_API_KEY yields a value
NoApiKey ==
    /\ args.kwargs.api_key = <<>> \/ args.kwargs.api_key[1] = <<>>
    /\ getenv(env, "SECRET_AI_API_KEY") = <<>> \/ getenv(env, "SECRET_AI_API_KEY")[1] = <<>>

\* C13: when no API key can be resolved, the constructor of each client
\* class (enhanced or basic, sync or async) raises SecretAIAPIKeyMissingError, and nothing has reached
\* the ollama client: neither its __init__ nor any request.
C13_MissingKeyBeforeTransport ==
    NoApiKey =>
        /\ wire = <<>>
        /\ calls = <<>>
        /\ client # Pending => client = Raised(SecretAIAPIKeyMissingError)

C13_Witness ==
    /\ NoApiKey
    /\ args.class = "EnhancedSecretAIClient"
    /\ getenv(env, "SECRET_AI_API_KEY") = << <<>> >>
    /\ client = Raised(SecretAIAPIKeyMissingError)
    /\ wire = <<>>

\* C14: a finished generate/chat call on an enhanced client has returned the
\* transport's response, or raised SecretAIResponseError, a configuration
\* error or SecretAIRetryExhaustedError; an exception of the transport and a
\* network, timeout or connection error reach the caller only as the error
\* that RetryExhausted wraps.
C14_OutcomeTaxonomy ==
    \A c \in DOMAIN calls :
        LET st == calls[c]
            n == Len(st.outcomes)
        IN  (EnhancedCall(c) /\ CallDone(c)) =>
                \/ /\ st.result.kind = "return"
                   /\ n >= 1 /\ st.result = st.outcomes[n]
                \/ /\ st.result.kind = "raise"
                   /\ st.result.exc.cls \in {"SecretAIResponseError"} \cup ConfigErrorClasses
                \/ /\ IsRetryExhausted(st.result)
                   /\ n >= 1 => st.result.exc.original_error = st.outcomes[n].exc

C14_Witness ==
    \E c \in DOMAIN calls :
        /\ calls[c].wrapper = "sync" /\ calls[c].func = "generate"
        /\ \E i \in 2..Len(wire) : wire[i].op = "generate"
        /\ IsRetryExhausted(calls[c].result)
        /\ calls[c].result.exc.original_error.cls = "SecretAIConnectionError"
        /\ calls[c].result.exc.original_error.original_error.cls = "ConnectError"

\* the API key the constructor resolves: the argument if given, else the variable
ResolvedApiKey ==
    IF args.kwargs.api_key # <<>> THEN args.kwargs.api_key[1] ELSE getenv(env, "SECRET_AI_API_KEY")[1]

\* C16: everything that reaches the ollama client, its __init__ and every
\* generate/chat request whether first try or retry, carries Authorization =
\* 'Bearer ' + the resolved API key, whatever headers the caller supplied;
\* the headers of the requests are those fixed at construction.
C16_AuthHeaderFixed ==
    \A i \in 1..Len(wire) :
        /\ "Authorization" \in DOMAIN wire[i].headers
        /\ wire[i].headers["Authorization"] = <<"B","e","a","r","e","r"," ">> \o ResolvedApiKey
        /\ wire[i].headers = wire[1].headers

C16_Witness ==
    /\ Len(wire) >= 3
    /\ wire[3].op = "chat"
    /\ "Authorization" \in DOMAIN args.kwargs.headers
    /\ args.kwargs.headers["Authorization"] # wire[3].headers["Authorization"]
    /\ wire[3].headers["Authorization"] = <<"B","e","a","r","e","r"," ","s","k","-","k","e","y">>
    /\ wire[3].headers["Trace"] = args.kwargs.headers["Trace"]

\* C23 (as claimed): in generate/chat a TimeoutException of the transport
\* reaches the retry wrapper as SecretAITimeoutError and a ConnectError as
\* SecretAIConnectionError, each with the transport's exception as its
\* original_error; so the last_error of a resulting RetryExhausted carries it.
C23_MappedWithCause ==
    \A c \in DOMAIN calls :
        LET st == calls[c]
        IN  EnhancedCall(c) =>
                \A i \in 1..Len(st.outcomes) :
                    LET t == script[i]
                        o == st.outcomes[i]
                    IN  /\ (t.kind = "raise" /\ isinstance(t.exc, {"TimeoutException"})) =>
                              /\ o.kind = "raise" /\ o.exc.cls = "SecretAITimeoutError"
                              /\ o.exc.original_error = t.exc
                        /\ (t.kind = "raise" /\ isinstance(t.exc, {"ConnectError"})) =>
                              /\ o.kind = "raise" /\ o.exc.cls = "SecretAIConnectionError"
                              /\ o.exc.original_error = t.exc
                        /\ (/\ t.kind = "raise" /\ isinstance(t.exc, {"TimeoutException", "ConnectError"})
                            /\ i = Len(st.outcomes) /\ IsRetryExhausted(st.result)) =>
                              st.result.exc.original_error.original_error = t.exc

\* a payload that fails validation: null, or a dictionary with an 'error' entry
BadPayload(t) ==
    t.kind = "return" /\ (t.value = None \/ (t.value.cls = "dict" /\ "error" \in DOMAIN t.value.items))

\* C24 (as claimed): on an enhanced client with validation enabled, a transport
\* invocation that returns a payload failing validation is the call's last
\* transport invocation, the payload is not returned, and the call raises the
\* SecretAIResponseError of that payload, whatever max_retries is and at
\* whichever attempt the payload arrives.
C24_BadPayloadIsFinal ==
    \A c \in DOMAIN calls :
        LET st == calls[c]
        IN  (EnhancedCall(c) /\ client.value.validate_responses) =>
                \A i \in 1..Len(script) :
                    BadPayload(script[i]) =>
                        /\ i = Len(script)
                        /\ st.result.kind = "raise"
                        /\ st.result.exc.cls = "SecretAIResponseError"
                        /\ st.result.exc.response_data = script[i].value

---------------------------------------------------------------------------
(* SpecValidate: _validate_response on its own.  args holds the client     *)
(* class, self.validate_responses and the response.                        *)

\* values a response dictionary can hold under a key
ResponseValues ==
    { None,
      PyStr(<<"m","o","d","e","l"," ","n","o","t"," ","f","o","u","n","d">>),
      PyStr(<<"n","o"," ","c","o","n","t","e","n","t"," ","h","e","r","e">>),
      PyInt(404),
      PyDict([content |-> PyStr(<<"h","i">>)]),
      PyDict([role |-> PyStr(<<"a","s","s","i","s","t","a","n","t">>)]) }

\* None, values that are no dictionary, and dictionaries over the keys
\* 'error', 'message', 'response' (an 'error' entry is never a dictionary)
Responses ==
    { None, PyStr(<<"e","r","r","o","r">>), PyInt(0) } \cup
    { PyDict(f) : f \in { g \in UNION { [K -> ResponseValues] : K \in SUBSET {"error", "message", "response"} } :
                            "error" \in DOMAIN g => g["error"].cls # "dict" } }

InitValidate ==
    /\ args \in [class : {"EnhancedSecretAIClient", "EnhancedSecretAIAsyncClient"},
                 validate_responses : BOOLEAN,
                 response : Responses]
    /\ results = <<>>
    /\ calls = <<>>
    /\ script = <<>>
    /\ error = None
    /\ verdict = <<>>
    /\ env = <<>>
    /\ client = Pending
    /\ wire = <<>>
    /\ cancelled = FALSE

\* self._validate_response(response) is called and returns or raises
Validate ==
    /\ results = <<>>
    /\ results' = << IF args.class = "EnhancedSecretAIClient"
                     THEN SyncClient_validate_response([validate_responses |-> args.validate_responses], args.response)
                     ELSE AsyncClient_validate_response([validate_responses |-> args.validate_responses], args.response) >>
    /\ UNCHANGED <<args, calls, script, error, verdict, env, client, wire, cancelled>>

NextValidate == Validate

SpecValidate == InitValidate /\ [][NextValidate]_vars

---------------------------------------------------------------------------
(* Properties of response validation (SpecValidate) *)

\* C15 (as claimed): with validation enabled _validate_response raises
\* SecretAIResponseError if and only if the response is None or a dictionary
\* with an 'error' key, and accepts every other response; with validation
\* disabled it accepts every response.
C15_ValidateIff ==
    results # <<>> =>
        LET rejected == /\ args.validate_responses
                        /\ \/ args.response = None
                           \/ args.response.cls = "dict" /\ "error" \in DOMAIN args.response.items
        IN  IF rejected
            THEN results[1].kind = "raise" /\ results[1].exc.cls = "SecretAIResponseError"
            ELSE results[1] = Returned(None)

\* C30 (as claimed): whatever the response is, _validate_response returns
\* normally or raises SecretAIResponseError, and raises no other kind of error.
C30_OnlyResponseError ==
    results # <<>> =>
        \/ results[1].kind = "return"
        \/ results[1].kind = "raise" /\ isinstance(results[1].exc, {"SecretAIResponseError"})

---------------------------------------------------------------------------
(* SpecCancel: the two runs of Spec, with a caller that may ask for         *)
(* cancellation at any moment.  Neither wrapper takes or tests a           *)
(* cancellation signal.  The task running async_wrapper, once cancelled,   *)
(* gets asyncio.CancelledError at the await it is suspended in; that is no *)
(* Exception, so `except Exception` lets it through.  sync_wrapper runs    *)
(* func and time.sleep on its own thread and nothing interrupts them.      *)

InitCancel ==
    /\ \E m \in 0..MaxRetries, d \in DelaySettings :
          calls = [c \in {"s", "a"} |->
                      NewCall(IF c = "s" THEN "sync" ELSE "async", "operation", m, d[1], d[2], d[3], NoFilter)]
    /\ script = <<>>
    /\ error = None
    /\ verdict = <<>>
    /\ env = <<>>
    /\ client = Pending
    /\ args = <<>>
    /\ results = <<>>
    /\ wire = <<>>
    /\ cancelled = FALSE

\* the caller raises its cancellation signal
Cancel ==
    /\ ~cancelled
    /\ cancelled' = TRUE
    /\ UNCHANGED <<calls, script, error, verdict, env, client, args, results, wire>>

\* the cancelled task is resumed with CancelledError: at the start, inside
\* `await func(...)` or inside `await asyncio.sleep(delay)`
AsyncCancelled(c) ==
    /\ calls[c].wrapper = "async" /\ calls[c].pc \in {"idle", "func", "sleep"}
    /\ cancelled
    /\ calls' = [calls EXCEPT ![c] = wrapper_raise(@, BuiltinError("CancelledError", <<>>))]

AsyncCancelledStep ==
    \E c \in DOMAIN calls :
        AsyncCancelled(c) /\ UNCHANGED <<script, error, verdict, env, client, args, results, wire, cancelled>>

\* a task that is not cancelled runs on
AsyncRunStep == ~cancelled /\ (AsyncCallStep \/ AsyncFuncStep \/ AsyncSleepStep)

NextCancel ==
    \/ Cancel
    \/ SyncCallStep
    \/ SyncFuncStep
    \/ SyncSleepStep
    \/ AsyncRunStep
    \/ AsyncCancelledStep

SpecCancel == InitCancel /\ [][NextCancel]_vars

---------------------------------------------------------------------------
(* Properties of cancellation (SpecCancel) *)

\* C17 (as claimed): once the cancellation signal is raised, a call that is
\* in the inter-attempt wait (and so about to start a new attempt) starts no
\* further attempt and reports neither RetryExhausted nor a success result.
C17_CancelStopsRetry ==
    [][ \A c \in DOMAIN calls :
            (cancelled /\ calls[c].pc = "sleep") =>
                /\ calls'[c].pc # "func"
                /\ ~IsRetryExhausted(calls'[c].result)
                /\ calls'[c].result.kind # "return" ]_vars

---------------------------------------------------------------------------
(* SpecConfig: the retry settings a decorator closes over and the timeouts *)
(* a client keeps, under one environment and one choice of explicit        *)
(* values.  args holds the explicit values (<<>> when not supplied).       *)

ConfigVars ==
    [SECRET_AI_MAX_RETRIES |-> <<"5">>,
     SECRET_AI_RETRY_DELAY |-> <<"4">>,
     SECRET_AI_RETRY_BACKOFF |-> <<"1">>,
     SECRET_AI_MAX_RETRY_DELAY |-> <<"6","0">>,
     SECRET_AI_REQUEST_TIMEOUT |-> <<"4","5">>,
     SECRET_AI_CONNECT_TIMEOUT |-> <<"0">>]

\* every choice of which of the six variables are set
ConfigEnvs == { [v \in S |-> ConfigVars[v]] : S \in SUBSET DOMAIN ConfigVars }

ConfigArgs ==
    [max_retries : {<<>>, <<-1>>, <<0>>, <<7>>},
     initial_delay : {<<>>, <<0>>, <<8>>},
     backoff_multiplier : {<<>>, <<9>>},
     max_delay : {<<>>, <<0>>, <<10>>},
     timeout : {<<>>, <<0>>, <<11>>},
     connect_timeout : {<<>>, <<12>>}]

InitConfig ==
    /\ env \in ConfigEnvs
    /\ args \in ConfigArgs
    /\ results = <<>>
    /\ calls = <<>>
    /\ script = <<>>
    /\ error = None
    /\ verdict = <<>>
    /\ client = Pending
    /\ wire = <<>>
    /\ cancelled = FALSE

\* retry_with_backoff(...) is applied, and a client is constructed with the
\* timeouts (and an API key); neither raises
Resolve ==
    /\ results = <<>>
    /\ LET deco == retry_with_backoff(env, args.max_retries, args.initial_delay,
                                      args.backoff_multiplier, args.max_delay, NoFilter)
           self == SyncClient_init(env, [NoArgs EXCEPT !.api_key = << <<"s","k","-","k","e","y">> >>,
                                                       !.timeout = args.timeout,
                                                       !.connect_timeout = args.connect_timeout],
                                   Returned(None)).value
       IN  results' = << Returned([max_retries |-> deco.max_retries,
                                   initial_delay |-> deco.initial_delay,
                                   backoff_multiplier |-> deco.backoff_multiplier,
                                   max_delay |-> deco.max_delay,
                                   request_timeout |-> self.request_timeout,
                                   connect_timeout |-> self.connect_timeout]) >>
    /\ UNCHANGED <<args, calls, script, error, verdict, env, client, wire, cancelled>>

NextConfig == Resolve

SpecConfig == InitConfig /\ [][NextConfig]_vars

---------------------------------------------------------------------------
(* Properties of configuration (SpecConfig) *)

\* the value a field should get: the explicit one, else the number whose
\* decimal form is the variable's text, else the built-in constant
Resolved(explicit, var, builtin) ==
    IF explicit # <<>> THEN explicit[1]
    ELSE IF var \in DOMAIN env THEN CHOOSE n \in 0..99 : int_str(n) = env[var]
    ELSE builtin

\* C18: each of max_retries, initial_delay, backoff_multiplier, max_delay and
\* the request and connect timeouts is the explicit value if one was supplied
\* (0 included), else the value of its environment variable if set, else its
\* built-in constant (3, 1, 2, 30; 30, 10), whatever was supplied or set for
\* the other fields.
C18_FieldByField ==
    results # <<>> =>
        /\ results[1].kind = "return"
        /\ results[1].value.max_retries = Resolved(args.max_retries, "SECRET_AI_MAX_RETRIES", 3)
        /\ results[1].value.initial_delay = Resolved(args.initial_delay, "SECRET_AI_RETRY_DELAY", 1)
        /\ results[1].value.backoff_multiplier = Resolved(args.backoff_multiplier, "SECRET_AI_RETRY_BACKOFF", 2)
        /\ results[1].value.max_delay = Resolved(args.max_delay, "SECRET_AI_MAX_RETRY_DELAY", 30)
        /\ results[1].value.request_timeout = Resolved(args.timeout, "SECRET_AI_REQUEST_TIMEOUT", 30)
        /\ results[1].value.connect_timeout = Resolved(args.connect_timeout, "SECRET_AI_CONNECT_TIMEOUT", 10)

C18_Witness ==
    /\ results # <<>>
    /\ args.max_retries = <<0>> /\ "SECRET_AI_MAX_RETRIES" \in DOMAIN env /\ results[1].value.max_retries = 0
    /\ args.initial_delay = <<>> /\ "SECRET_AI_RETRY_DELAY" \in DOMAIN env /\ results[1].value.initial_delay = 4
    /\ args.max_delay = <<>> /\ "SECRET_AI_MAX_RETRY_DELAY" \notin DOMAIN env /\ results[1].value.max_delay = 30
    /\ args.timeout = <<0>> /\ results[1].value.request_timeout = 0
    /\ args.connect_timeout = <<>> /\ "SECRET_AI_CONNECT_TIMEOUT" \notin DOMAIN env
    /\ results[1].value.connect_timeout = 10

\* an explicit value outside the domain of its field: max_retries < 0,
\* initial_delay < 0, backoff_multiplier < 1, or max_delay below the initial
\* delay in force
OutOfDomainOverride ==
    \/ args.max_retries # <<>> /\ args.max_retries[1] < 0
    \/ args.initial_delay # <<>> /\ args.initial_delay[1] < 0
    \/ args.backoff_multiplier # <<>> /\ args.backoff_multiplier[1] < 1
    \/ args.max_delay # <<>> /\ args.max_delay[1] < Resolved(args.initial_delay, "SECRET_AI_RETRY_DELAY", 1)

\* C19 (as claimed): building the retry configuration raises a configuration
\* error exactly when an explicit value is out of domain.
C19_OutOfDomainRejected ==
    results # <<>> =>
        IF OutOfDomainOverride
        THEN results[1].kind = "raise" /\ results[1].exc.cls \in ConfigErrorClasses
        ELSE results[1].kind = "return"

---------------------------------------------------------------------------
(* SpecDelay: calculate_delay on its own, under one configuration, at      *)
(* several attempt indices.  results maps each attempt index tried so far  *)
(* to what calculate_delay returned or raised there.                       *)

MaxAttempt == 5

\* the first attempt indices, and the two around the float range's end
DelayAttempts == (0..MaxAttempt) \cup {FLOAT_MAX_EXP - 1, FLOAT_MAX_EXP}

DelayConfigs ==
    [initial_delay : 0..2, multiplier : {0, 1, 2, 4}, max_delay : {0, 1, 5, 30}]

InitDelay ==
    /\ args \in DelayConfigs
    /\ results = <<>>
    /\ calls = <<>>
    /\ script = <<>>
    /\ error = None
    /\ verdict = <<>>
    /\ env = <<>>
    /\ client = Pending
    /\ wire = <<>>
    /\ cancelled = FALSE

\* calculate_delay(a, ...) is called and returns or raises
Delay ==
    \E a \in DelayAttempts \ DOMAIN results :
        /\ results' = [b \in DOMAIN results \cup {a} |->
                          IF b = a
                          THEN calculate_delay(a, args.initial_delay, args.multiplier, args.max_delay)
                          ELSE results[b]]
        /\ UNCHANGED <<args, calls, script, error, verdict, env, client, wire, cancelled>>

NextDelay == Delay

SpecDelay == InitDelay /\ [][NextDelay]_vars

---------------------------------------------------------------------------
(* Properties of the backoff schedule (SpecDelay) *)

\* initial_delay >= 0, multiplier >= 1, max_delay >= initial_delay
InDomain(cfg) ==
    cfg.initial_delay >= 0 /\ cfg.multiplier >= 1 /\ cfg.max_delay >= cfg.initial_delay

\* C11 (as claimed): at every attempt index a >= 0 calculate_delay returns
\* min(initial_delay * multiplier^a, max_delay); for an in-domain
\* configuration the delays never exceed max_delay, never decrease as a
\* grows, and stay at max_delay once they have reached it.
C11_DelaySchedule ==
    \A a \in DOMAIN results :
        /\ results[a] = Returned(min(args.initial_delay * pow(args.multiplier, a), args.max_delay))
        /\ InDomain(args) =>
              /\ results[a].value <= args.max_delay
              /\ \A b \in DOMAIN results :
                    a < b => /\ results[b].kind = "return"
                             /\ results[a].value <= results[b].value
                             /\ results[a].value = args.max_delay => results[b].value = args.max_delay

---------------------------------------------------------------------------
(* secret.py: Secret.get_models and Secret.get_urls.  Each defines the     *)
(* query function, decorates it with retry_with_backoff(max_retries=3)     *)
(* and calls it.  A response list is a value of class list.                *)

PyList(xs) == [cls |-> "list", items |-> xs]

\* the query of _query_urls: {"get_u_r_ls": {}} `if not model`, else {"get_u_r_ls": {"model": model}};
\* the inner dictionary is <<>> or <<model>>
urls_query(model) ==
    IF model = <<>> \/ model[1] = <<>> THEN [get_u_r_ls |-> <<>>] ELSE [get_u_r_ls |-> <<model[1]>>]

\* _query_models without the conversion: an exception of the query is re-raised as it is
query_models_reraise(t) ==
    LET checked == IF t.kind = "return" /\ (t.value.cls # "dict" \/ "models" \notin DOMAIN t.value.items)
                   THEN Raised(SecretAIResponseError(<<"I","n","v","a","l","i","d"," ","r","e","s","p","o","n","s","e"," ","f","o","r","m","a","t"," ","f","r","o","m"," ","s","m","a","r","t"," ","c","o","n","t","r","a","c","t">>, t.value))
                   ELSE t
    IN  IF checked.kind = "return" THEN Returned(t.value.items["models"]) ELSE checked

\* _query_models() when contract_query has outcome t
query_models(t) ==
    LET checked == IF t.kind = "return" /\ (t.value.cls # "dict" \/ "models" \notin DOMAIN t.value.items)
                   THEN Raised(SecretAIResponseError(<<"I","n","v","a","l","i","d"," ","r","e","s","p","o","n","s","e"," ","f","o","r","m","a","t"," ","f","r","o","m"," ","s","m","a","r","t"," ","c","o","n","t","r","a","c","t">>, t.value))
                   ELSE t
    IN  IF checked.kind = "return" THEN Returned(t.value.items["models"])
        ELSE LET e == checked.exc
             IN  IF isinstance(e, {"SecretAIResponseError"}) THEN Raised(e)
                 ELSE Raised(SecretAINetworkError(<<"F","a","i","l","e","d"," ","t","o"," ","q","u","e","r","y"," ","m","o","d","e","l","s",":"," ">> \o str(e), e))

\* _query_urls() when contract_query has outcome t
query_urls(t) ==
    LET checked == IF t.kind = "return" /\ (t.value.cls # "dict" \/ "urls" \notin DOMAIN t.value.items)
                   THEN Raised(SecretAIResponseError(<<"I","n","v","a","l","i","d"," ","r","e","s","p","o","n","s","e"," ","f","o","r","m","a","t"," ","f","r","o","m"," ","s","m","a","r","t"," ","c","o","n","t","r","a","c","t">>, t.value))
                   ELSE t
    IN  IF checked.kind = "return" THEN Returned(t.value.items["urls"])
        ELSE LET e == checked.exc
             IN  IF isinstance(e, {"SecretAIResponseError"}) THEN Raised(e)
                 ELSE Raised(SecretAINetworkError(<<"F","a","i","l","e","d"," ","t","o"," ","q","u","e","r","y"," ","U","R","L","s",":"," ">> \o str(e), e))

---------------------------------------------------------------------------
(* SpecSecret: one call of get_models or get_urls.  args holds the method  *)
(* and get_urls's model; wire holds the contract queries made so far, each *)
(* with the outcome the LCD client gave it.                                *)

SecretEnvs ==
    { <<>>,
      [SECRET_AI_MAX_RETRIES |-> <<"1">>, SECRET_AI_RETRY_DELAY |-> <<"2">>],
      [SECRET_AI_RETRY_BACKOFF |-> <<"3">>, SECRET_AI_MAX_RETRY_DELAY |-> <<"5">>] }

SecretArgs ==
    { [method |-> "get_models", model |-> <<>>] } \cup
    { [method |-> "get_urls", model |-> m] : m \in { <<>>, << <<>> >>, << <<"l","l","a","m","a","3">> >> } }

\* what contract_query can do: a response of the contract, a value of another shape, or an exception
QueryOutcomes ==
    { Returned(PyDict([models |-> PyList(<< PyStr(<<"l","l","a","m","a","3">>), PyStr(<<"g","e","m","m","a">>) >>)])),
      Returned(PyDict([urls |-> PyList(<< PyStr(<<"h","t","t","p","s",":","/","/","a","i","1">>) >>)])),
      Returned(PyDict([models |-> PyList(<< PyStr(<<"l","l","a","m","a","3">>), PyStr(<<"g","e","m","m","a">>) >>), urls |-> PyList(<< PyStr(<<"h","t","t","p","s",":","/","/","a","i","1">>) >>)])),
      Returned(PyDict([invalid |-> PyStr(<<"r","e","s","p","o","n","s","e">>)])),
      Returned(PyStr(<<"m","o","d","e","l","s">>)),
      Returned(None),
      Raised(BuiltinError("Exception", <<"N","e","t","w","o","r","k"," ","e","r","r","o","r">>)),
      Raised(BuiltinError("Exception", <<"T","i","m","e","o","u","t">>)),
      Raised(BuiltinError("ValueError", <<"I","n","v","a","l","i","d"," ","i","n","p","u","t">>)),
      Raised(BuiltinError("KeyError", <<"m","o","d","e","l","s">>)) }

InitSecret ==
    /\ env \in SecretEnvs
    /\ args \in SecretArgs
    /\ calls = <<>>
    /\ wire = <<>>
    /\ script = <<>>
    /\ error = None
    /\ verdict = <<>>
    /\ client = Pending
    /\ results = <<>>
    /\ cancelled = FALSE

\* get_models() / get_urls(model) up to the first contract query: the decorator is
\* applied and the decorated function called
SecretCall ==
    /\ calls = <<>>
    /\ LET deco == retry_with_backoff(env, <<3>>, <<>>, <<>>, <<>>, NoFilter)
           func == IF args.method = "get_models" THEN "_query_models" ELSE "_query_urls"
           st == NewCall("sync", func, deco.max_retries, deco.initial_delay,
                         deco.backoff_multiplier, deco.max_delay, deco.retryable_exceptions)
       IN  calls' = [c \in {1} |-> sync_wrapper_for([st EXCEPT !.last_error = None], 0)]
    /\ UNCHANGED <<script, cvars>>

\* contract_query has outcome t and the query function finishes
SecretQueryStep ==
    \E c \in DOMAIN calls, t \in QueryOutcomes :
        /\ SyncFuncDone(c, IF calls[c].func = "_query_models" THEN query_models(t) ELSE query_urls(t))
        /\ wire' = Append(wire, [op |-> "contract_query",
                                 query |-> IF calls[c].func = "_query_models"
                                           THEN [get_models |-> <<>>]      \* {"get_models": {}}
                                           ELSE urls_query(args.model),
                                 outcome |-> t])
        /\ script' = Append(script, t)
        /\ UNCHANGED <<error, verdict, env, client, args, results, cancelled>>

NextSecret ==
    \/ SecretCall
    \/ SecretQueryStep
    \/ SyncSleepStep

SpecSecret == InitSecret /\ [][NextSecret]_vars

---------------------------------------------------------------------------
(* Properties of a registry call (SpecSecret) *)

\* the key of the list the method returns
ListKey == IF args.method = "get_models" THEN "models" ELSE "urls"

\* a response that is not a dictionary or lacks the key
Malformed(t) == t.kind = "return" /\ (t.value.cls # "dict" \/ ListKey \notin DOMAIN t.value.items)
WellFormed(t) == t.kind = "return" /\ ~Malformed(t)

\* C20: get_models and get_urls make at most 4 contract queries; a query that
\* fails with an exception is followed by another one while the budget lasts;
\* the call returns the list of the first well-formed response and makes no
\* query after it; a malformed response makes the call raise ResponseError
\* carrying it, with no query after it (so after exactly one query when it is
\* the first).
C20_RegistryQueries ==
    \A c \in DOMAIN calls :
        LET n == Len(wire)
        IN  /\ n <= 4
            /\ \A i \in 1..n : wire[i].outcome.kind = "raise" /\ i < 4 => i < n \/ ~CallDone(c)
            /\ \A i \in 1..n : wire[i].outcome.kind = "return" => i = n /\ CallDone(c)
            /\ CallDone(c) /\ WellFormed(wire[n].outcome)
                  => calls[c].result = Returned(wire[n].outcome.value.items[ListKey])
            /\ CallDone(c) /\ Malformed(wire[n].outcome)
                  => calls[c].result = Raised(SecretAIResponseError(<<"I","n","v","a","l","i","d"," ","r","e","s","p","o","n","s","e"," ","f","o","r","m","a","t"," ","f","r","o","m"," ","s","m","a","r","t"," ","c","o","n","t","r","a","c","t">>, wire[n].outcome.value))

---------------------------------------------------------------------------
(* _retry.py: RetryableSession.request_with_retry.  A call is the same     *)
(* record as a wrapped function's, with wrapper = "request"; its           *)
(* max_retries and delays are the session's.  A response is a record       *)
(* [cls |-> "Response", raise_for_status |-> what raise_for_status() does]. *)

\* _should_retry(self, error)
should_retry(e) == is_retryable_error(e)

\* the try body of request_with_retry when self.session.request(...) has outcome t
request_try(t) ==
    IF t.kind = "raise" THEN t
    ELSE IF t.value.raise_for_status.kind = "raise" THEN t.value.raise_for_status
    ELSE Returned(t.value)

\* `for attempt in range(self.max_retries + 1)` reaching index i
request_with_retry_for(st, i) ==
    IF i < st.max_retries + 1
    THEN [st EXCEPT !.attempt = i, !.pc = "func"]
    ELSE wrapper_raise(st, SecretAIRetryExhaustedError(st.max_retries + 1, st.last_error))

\* `except Exception as e:` of request_with_retry, up to the sleep or the raise
request_with_retry_except(st, e) ==
    LET st1 == [st EXCEPT !.last_error = e, !.outcomes = Append(@, Raised(e))]
    IN  IF st1.attempt >= st1.max_retries
        THEN wrapper_raise(st1, SecretAIRetryExhaustedError(st1.max_retries + 1, st1.last_error))
        ELSE IF ~should_retry(e)
        THEN wrapper_raise(st1, e)
        ELSE LET delay == calculate_delay(st1.attempt, st1.initial_delay, st1.backoff_multiplier, st1.max_delay)
             IN  IF delay.kind = "raise"
                 THEN wrapper_raise(st1, delay.exc)
                 ELSE [st1 EXCEPT !.pc = "sleep", !.sleeps = Append(@, delay.value)]

\* `return response`
request_with_retry_return(st, v) ==
    [st EXCEPT !.pc = "returned", !.result = Returned(v), !.outcomes = Append(@, Returned(v))]

\* request_with_retry is called: last_error = None, first loop index
RequestCall(c) ==
    /\ calls[c].wrapper = "request" /\ calls[c].pc = "idle"
    /\ calls' = [calls EXCEPT ![c] = request_with_retry_for([@ EXCEPT !.last_error = None], 0)]

\* the try body finishes with outcome o
RequestDone(c, o) ==
    /\ calls[c].wrapper = "request" /\ calls[c].pc = "func"
    /\ calls' = [calls EXCEPT ![c] = IF o.kind = "return"
                                     THEN request_with_retry_return(@, o.value)
                                     ELSE request_with_retry_except(@, o.exc)]

\* time.sleep(delay) returns: next loop index
RequestSleepDone(c) ==
    /\ calls[c].wrapper = "request" /\ calls[c].pc = "sleep"
    /\ calls' = [calls EXCEPT ![c] = request_with_retry_for(@, @.attempt + 1)]

---------------------------------------------------------------------------
(* SpecMachine: one retry-wrapped call on its own: a function under        *)
(* sync_wrapper, a coroutine function under async_wrapper, or a            *)
(* request_with_retry of a RetryableSession.  script holds what the        *)
(* operation (the function, or session.request) has done so far.           *)

\* what session.request(...) can do
RequestOutcomes ==
    { Returned([cls |-> "Response", raise_for_status |-> Returned(None)]),
      Returned([cls |-> "Response", raise_for_status |-> Raised(BuiltinError("Exception", <<"5","0","3"," ","S","e","r","v","e","r"," ","E","r","r","o","r",":"," ","S","e","r","v","i","c","e"," ","U","n","a","v","a","i","l","a","b","l","e">>))]),
      Returned([cls |-> "Response", raise_for_status |-> Raised(BuiltinError("Exception", <<"4","0","4"," ","C","l","i","e","n","t"," ","E","r","r","o","r",":"," ","N","o","t"," ","F","o","u","n","d">>))]),
      Raised(BuiltinError("ConnectionError", <<"C","o","n","n","e","c","t","i","o","n"," ","r","e","s","e","t"," ","b","y"," ","p","e","e","r">>)),
      Raised(BuiltinError("ValueError", <<"I","n","v","a","l","i","d"," ","i","n","p","u","t">>)) }

InitMachine ==
    /\ \E w \in {"sync", "async", "request"}, m \in (-1)..MaxRetries, f \in Filters, d \in DelaySettings :
          /\ w = "request" => f = NoFilter
          /\ calls = [c \in {1} |-> NewCall(w, IF w = "request" THEN "request" ELSE "operation",
                                            m, d[1], d[2], d[3], f)]
    /\ script = <<>>
    /\ error = None
    /\ verdict = <<>>
    /\ env = <<>>
    /\ client = Pending
    /\ args = <<>>
    /\ results = <<>>
    /\ wire = <<>>
    /\ cancelled = FALSE

RequestCallStep == \E c \in DOMAIN calls : RequestCall(c) /\ UNCHANGED <<script, cvars>>
RequestStep ==
    \E c \in DOMAIN calls, t \in RequestOutcomes :
        RequestDone(c, request_try(t)) /\ script' = Append(script, t) /\ UNCHANGED cvars
RequestSleepStep == \E c \in DOMAIN calls : RequestSleepDone(c) /\ UNCHANGED <<script, cvars>>

NextMachine ==
    \/ SyncCallStep
    \/ AsyncCallStep
    \/ RequestCallStep
    \/ SyncFuncStep
    \/ AsyncFuncStep
    \/ RequestStep
    \/ SyncSleepStep
    \/ AsyncSleepStep
    \/ RequestSleepStep

SpecMachine == InitMachine /\ [][NextMachine]_vars

\* every operation invocation and every wait finishes, and the call is started
SpecMachineFair == SpecMachine /\ WF_vars(NextMachine)

---------------------------------------------------------------------------
(* Properties of one retry-wrapped call (SpecMachine, SpecMachineFair) *)

\* the state of the call in the state machine of the retry executor
Phase(st) ==
    CASE st.pc = "idle" -> "INIT"
      [] st.pc = "func" -> "ATTEMPTING"
      [] st.pc = "sleep" -> "WAITING"
      [] st.pc = "returned" -> "SUCCESS"
      [] st.pc = "raised" /\ IsRetryExhausted(st.result) -> "EXHAUSTED"
      [] st.pc = "raised" /\ ~IsRetryExhausted(st.result) -> "FATAL_FAILURE"

Transitions ==
    { <<"INIT", "ATTEMPTING">>, <<"ATTEMPTING", "SUCCESS">>, <<"ATTEMPTING", "FATAL_FAILURE">>,
      <<"ATTEMPTING", "WAITING">>, <<"WAITING", "ATTEMPTING">>, <<"ATTEMPTING", "EXHAUSTED">> }

Terminal == {"SUCCESS", "FATAL_FAILURE", "EXHAUSTED"}

\* how often the call has entered ATTEMPTING
Visits(st) == Len(st.outcomes) + IF st.pc = "func" THEN 1 ELSE 0

\* C25 (as claimed): a retry-wrapped call only moves along the six
\* transitions of the state machine (so its terminal states are absorbing),
\* it enters ATTEMPTING at most max_retries + 1 times, and if every invocation
\* and every wait finishes it eventually is in a terminal state.
C25_StateMachine ==
    /\ [][\A c \in DOMAIN calls :
             \/ Phase(calls'[c]) = Phase(calls[c])
             \/ <<Phase(calls[c]), Phase(calls'[c])>> \in Transitions]_vars
    /\ [](\A c \in DOMAIN calls : Visits(calls[c]) <= calls[c].max_retries + 1)
    /\ <>(\A c \in DOMAIN calls : Phase(calls[c]) \in Terminal)

\* C27 (as claimed): whatever integer max_retries is, negative included, a
\* call that has raised has invoked the operation at least once; so a
\* RetryExhausted never carries attempts <= 0 or a null last_error.
C27_InvokedBeforeRaising ==
    \A c \in DOMAIN calls :
        LET st == calls[c]
        IN  st.pc = "raised" =>
                /\ Len(st.outcomes) >= 1
                /\ IsRetryExhausted(st.result) =>
                      /\ st.result.exc.attempts > 0
                      /\ st.result.exc.original_error # None

---------------------------------------------------------------------------
(* SpecNested: a function decorated with retry_with_backoff whose body     *)
(* calls another decorated function (synchronous, no filter on either).    *)
(* calls["outer"] is the call the caller makes, calls["inner"] the call    *)
(* that the current invocation of the outer function makes; script holds   *)
(* the outcomes of the innermost operation, over all inner calls.          *)

NestedOutcomes ==
    { Returned("success"),
      Raised(SecretAINetworkError(<<"N","e","t","w","o","r","k"," ","e","r","r","o","r">>, None)),
      Raised(BuiltinError("Exception", <<"5","0","2"," ","B","a","d"," ","G","a","t","e","w","a","y">>)),
      Raised(BuiltinError("ValueError", <<"I","n","v","a","l","i","d"," ","i","n","p","u","t">>)) }

\* the inner decorated function before a call of it
InnerIdle(m, d) == NewCall("sync", "operation", m, d[1], d[2], d[3], NoFilter)

InitNested ==
    /\ \E mo \in 0..MaxRetries, mi \in 0..MaxRetries, d \in DelaySettings :
          calls = [c \in {"outer", "inner"} |->
                      IF c = "outer" THEN NewCall("sync", "inner", mo, d[1], d[2], d[3], NoFilter)
                      ELSE InnerIdle(mi, d)]
    /\ script = <<>>
    /\ error = None
    /\ verdict = <<>>
    /\ env = <<>>
    /\ client = Pending
    /\ args = <<>>
    /\ results = <<>>
    /\ wire = <<>>
    /\ cancelled = FALSE

\* the caller calls the outer function
OuterCallStep == SyncCall("outer") /\ UNCHANGED <<script, cvars>>

\* the body of the outer function calls the inner function
InnerCallStep ==
    /\ calls["outer"].pc = "func"
    /\ SyncCall("inner")
    /\ UNCHANGED <<script, cvars>>

\* the innermost operation finishes
InnerFuncStep ==
    \E o \in NestedOutcomes :
        SyncFuncDone("inner", o) /\ script' = Append(script, o) /\ UNCHANGED cvars

InnerSleepStep == SyncSleepDone("inner") /\ UNCHANGED <<script, cvars>>

\* the inner call has ended: its result is the outcome of the outer function's invocation
OuterFuncStep ==
    /\ calls["outer"].pc = "func" /\ CallDone("inner")
    /\ LET r == calls["inner"].result
           st == calls["inner"]
       IN  calls' = [calls EXCEPT
                        !["outer"] = IF r.kind = "return"
                                     THEN sync_wrapper_return(@, r.value)
                                     ELSE sync_wrapper_except(@, r.exc),
                        !["inner"] = InnerIdle(st.max_retries,
                                               <<st.initial_delay, st.backoff_multiplier, st.max_delay>>)]
    /\ UNCHANGED <<script, cvars>>

OuterSleepStep == SyncSleepDone("outer") /\ UNCHANGED <<script, cvars>>

NextNested ==
    \/ OuterCallStep
    \/ InnerCallStep
    \/ InnerFuncStep
    \/ InnerSleepStep
    \/ OuterFuncStep
    \/ OuterSleepStep

SpecNested == InitNested /\ [][NextNested]_vars

---------------------------------------------------------------------------
(* Properties of nested retry-wrapped calls (SpecNested) *)

\* every invocation of the innermost operation so far failed with an error the classifier retries
AlwaysFailsRetryably ==
    \A i \in 1..Len(script) : script[i].kind = "raise" /\ is_retryable_error(script[i].exc)

\* C28: is_retryable_error holds of every RetryExhausted the inner call
\* raises; when the innermost operation always fails retryably, the outer call
\* ends only after (outer max_retries + 1) * (inner max_retries + 1)
\* invocations of it, raising RetryExhausted whose last_error is the
\* RetryExhausted of the last inner call.
C28_NestedMultiplies ==
    LET outer == calls["outer"]
        mo == outer.max_retries
        mi == calls["inner"].max_retries
    IN  /\ \A i \in 1..Len(outer.outcomes) :
              (outer.outcomes[i].kind = "raise" /\ IsRetryExhausted(outer.outcomes[i]))
                  => is_retryable_error(outer.outcomes[i].exc)
        /\ AlwaysFailsRetryably =>
              /\ Len(script) <= (mo + 1) * (mi + 1)
              /\ CallDone("outer") =>
                    /\ Len(script) = (mo + 1) * (mi + 1)
                    /\ IsRetryExhausted(outer.result)
                    /\ outer.result.exc.attempts = mo + 1
                    /\ outer.result.exc.original_error =
                           SecretAIRetryExhaustedError(mi + 1, script[Len(script)].exc)

C28_Witness ==
    /\ calls["outer"].max_retries = 2 /\ calls["inner"].max_retries = 2
    /\ AlwaysFailsRetryably /\ Len(script) = 9
    /\ CallDone("outer") /\ IsRetryExhausted(calls["outer"].result)
    /\ IsRetryExhausted([kind |-> "raise", exc |-> calls["outer"].result.exc.original_error])

---------------------------------------------------------------------------
(* SpecWrapped: the retry-wrapped calls of the SDK itself: a client        *)
(* session (generate/chat) or a registry call (get_models/get_urls).       *)
(* script holds what the underlying call (the ollama client's method, or   *)
(* contract_query) has done at each invocation.                            *)

InitWrapped == InitSession \/ InitSecret

NextWrapped ==
    \/ "class" \in DOMAIN args /\ NextSession      \* a client is in use
    \/ "method" \in DOMAIN args /\ NextSecret      \* a registry method is in use

SpecWrapped == InitWrapped /\ [][NextWrapped]_vars

\* a failure of the underlying call other than a ResponseError
OtherFailure(t) == t.kind = "raise" /\ ~isinstance(t.exc, {"SecretAIResponseError"})

\* C29: in generate/chat and in get_models/get_urls, an invocation whose
\* underlying call failed with anything but a ResponseError reaches the retry
\* wrapper as an error of kind SecretAINetworkError, whatever its message; it
\* is followed by another invocation unless it was invocation
\* max_retries + 1, and then the call raises RetryExhausted wrapping it.
C29_FailuresBecomeNetworkErrors ==
    \A c \in DOMAIN calls :
        LET st == calls[c]
            n == Len(st.outcomes)
        IN  EnhancedCall(c) =>
                \A i \in 1..n :
                    OtherFailure(script[i]) =>
                        /\ st.outcomes[i].kind = "raise"
                        /\ isinstance(st.outcomes[i].exc, {"SecretAINetworkError"})
                        /\ is_retryable_error(st.outcomes[i].exc)
                        /\ (i = n /\ CallDone(c)) =>
                              /\ i = st.max_retries + 1
                              /\ st.result = Raised(SecretAIRetryExhaustedError(i, st.outcomes[i].exc))

C29_Witness ==
    \E c \in DOMAIN calls :
        /\ "class" \in DOMAIN args /\ calls[c].func = "chat" /\ Len(script) = 4
        /\ \A i \in 1..4 : script[i] = Raised(BuiltinError("Exception", <<"I","n","v","a","l","i","d"," ","i","n","p","u","t">>))
        /\ IsRetryExhausted(calls[c].result)
        /\ calls[c].result.exc.original_error.cls = "SecretAINetworkError"

====
